---- MODULE Spec2Model ----
(***************************************************************************)
(* The session hub and real-time message router of the chat translation    *)
(* proxy: the registry of clients and rooms (Hub), the room lifecycle, the  *)
(* REST setup handlers, the per-connection WebSocket loop and the close     *)
(* timer.                                                                   *)
(*                                                                          *)
(* Granularity.  A method of Hub runs under hub.mu and is one atomic step.  *)
(* The handlers and the timer callback read and write the fields of a Room  *)
(* and of a Client without any lock, so each of them is a process that      *)
(* takes one step per shared access (adjacent accesses to handler-local     *)
(* data are folded into the step before them).                              *)
(*                                                                          *)
(* The specifications share the state.  Spec runs the handlers             *)
(* concurrently.  SpecSerial runs the same handlers one request at a time,  *)
(* for the end-to-end scenarios, and SpecEnd does so for one agent and      *)
(* three close timers.  SpecHub and SpecRegistry call the methods of Hub    *)
(* directly and write the exported fields of a Room, as the package's own   *)
(* code may.  SpecChat and SpecTalk follow two connections, serially and    *)
(* concurrently, with prepareMessage folded into the delivering step;       *)
(* SpecPrepare unfolds prepareMessage around its call of DetectLanguage.    *)
(* SpecLoop runs the read loop with the RateLimiter, SpecLive the server    *)
(* under its scheduler.  SpecJoin, SpecLimiter, SpecCache and SpecKeys take *)
(* one component each.                                                      *)
(***************************************************************************)
EXTENDS Integers, Sequences, FiniteSets, TLC

\* ------------------------------------------------------------- universes
\* Tokens and room ids are 128-bit random strings in the program
\* (generateToken); the model draws them, unused ones first, from these sets.
CustomerTokens == {"c1"}
AgentTokens == {"a1", "a2"}
RoomIDs == {"r1"}
HubRoomIDs == {"r1", "r2"}
HubTokens == {"a1"}
\* a token no Client has
FakeTokens == {"fake-token"}
\* SpecJoin: two customers, a room each, and one agent
JoinCustomers == {"c1", "c2"}
JoinRoomIDs == {"r1", "r2"}
JoinAgents == {"a1"}
\* a string that is looked into (a language code, a text, a reply of the
\* model) is the sequence of its characters
AgentLanguages == {<<"e", "n">>}
\* what the model replies when asked for the language of a text, and when
\* asked for a translation
DetectReplies == {<<" ", "p", "t", "\n">>}
TranslateReplies == {<<"\n", "o", "i", " ">>}
\* SpecPrepare: the languages of the agent, what the model replies when
\* asked for a language, and the texts prepareMessage is called with
PrepareLanguages == {<<"e", "n">>, <<"p", "t">>}
PrepareReplies == {<<" ", "p", "t", "\n">>, <<"e", "s">>}
PrepareTexts == {<<"0", " ">>, <<"1", " ">>}
\* the identities the limiter is asked about
\* SpecKeys: the languages and texts Translate is called with, and what
\* generate answers
KeySources == {<<"e", "n">>, <<"e", "n", ":", "p", "t">>}
KeyTargets == {<<"p", "t">>}
KeyTexts == {<<"o", "i">>, <<"p", "t", ":", "o", "i">>}
KeyReplies == {<<"x">>, <<"y">>}

LimiterTokens == {"token1", "token2"}
\* the texts and languages Translate is called with and the texts generate
\* returns, a string being the sequence of its characters
CacheTexts == {<<"h", ":", "i">>}
CacheSources == {<<"e", "n">>}
CacheTargets == {<<"p", "t">>}
Generated == {<<"o", "i">>, <<"o", "l", "a">>}

Nil == "nil"
NoConn == "nil"
NoTimer == 0

\* Spec: the handlers and timer callbacks that are between their first and
\* their last step at the same instant, the close timers the end-chat
\* requests of a run make, the payloads its WebSocket connections receive.
MaxInFlight == 2
MaxTimers == 1
MaxMessages == 1
\* SpecSerial: the timers and the payloads of a run.
SerialTimers == 2
SerialMessages == 1
\* SpecChat: the timers and the payloads of a run.
ChatTimers == 1
ChatMessages == 1
\* SpecTalk: the handlers in flight at the same instant and the payloads.
TalkInFlight == 2
TalkMessages == 2
\* SpecEnd: the timers and the payloads of a run.
EndTimers == 3
EndMessages == 1
\* SpecRegistry: the calls of IsAgentInRoom of a run.
MaxQueries == 2
\* SpecLive: the handlers in flight at the same instant, the timers and the
\* payloads of a run.
LiveInFlight == 2
LiveTimers == 2
LiveMessages == 1
\* SpecKeys: the calls of Translate of a run.
MaxLookups == 3
\* SpecLoop: the payloads of a run.
LoopMessages == 2
\* SpecPrepare: the calls of prepareMessage of a run.
MaxPrepares == 3
\* SpecLimiter and SpecCache: the calls of a run, the readings of the clock,
\* the calls of Translate that are in generate at the same instant, and the
\* configurations a run starts from.
MaxCalls == 4
MaxTranslations == 3
MaxClock == 2
MaxPending == 2
MaxRate == 2
MaxWindow == 2
MaxTTL == 1

Concurrent ==
    [inflight |-> MaxInFlight, timers |-> MaxTimers, messages |-> MaxMessages,
     conns |-> {"k1"}]

Serial ==
    [inflight |-> 1, timers |-> SerialTimers, messages |-> SerialMessages,
     conns |-> {"k1"}]

\* one request at a time, and two connections open at once
Paired ==
    [inflight |-> 1, timers |-> ChatTimers, messages |-> ChatMessages,
     conns |-> {"k1", "k2"}]

\* two connections open at once and no request to end a chat
Talking ==
    [inflight |-> TalkInFlight, timers |-> 0, messages |-> TalkMessages,
     conns |-> {"k1", "k2"}]

\* one request at a time, one agent, and a room that is ended again and again
Ending ==
    [inflight |-> 1, timers |-> EndTimers, messages |-> EndMessages,
     conns |-> {"k1"}]

\* concurrent requests, one agent, one connection
Expiring ==
    [inflight |-> LiveInFlight, timers |-> LiveTimers, messages |-> LiveMessages,
     conns |-> {"k1"}]

\* two connections open at once in a room that nobody ends
Looping ==
    [inflight |-> 1, timers |-> 0, messages |-> LoopMessages, conns |-> {"k1", "k2"}]

RoomWaiting == "waiting"
RoomActive == "active"
RoomClosed == "closed"
RoomClosing == "closing"

\* The error values of Hub.JoinRoom (the text before the room id).
ErrNotFound == "room not found"
ErrNotAvailable == "room is not available"
ErrOccupied == "agent is already in room"
ErrNoCustomer == "customer is required"
Ok == "ok"

VARIABLES
    Clients,    \* hub.Clients: the tokens that are keys of the map
    Rooms,      \* hub.Rooms: the room ids that are keys of the map
    client,     \* the Client objects, by token: Name, Language, Connection
    room,       \* the Room objects, by id: Customer, Agent, Status, Messages, CloseTimer
    timer,      \* the timers made by time.AfterFunc: the room they close, their state
    conn,       \* the WebSocket handlers: their locals, position and what was written to them
    http,       \* the REST handlers in flight: their locals and position
    sent,       \* how many payloads the WebSocket connections received
    wins,       \* per room, the agents whose JoinRoom succeeded: ever, and since a step of an end, an expiry or a reopen
    left,       \* per room, whether its status was ever written with something other than waiting
    bound,      \* the limits of the run
    limiter,    \* the RateLimiter: limits, maxMessages, window
    translator, \* the Translator: cache, cacheTTL
    pending,    \* the calls that are in generate: of Translate after a miss, of prepareMessage for the language
    now,        \* the clock: what time.Now() returns
    log         \* what the calls of Allow, Translate, IsAgentInRoom, prepareMessage and conn.Read led to, in order

\* the state of the limiter and of the translator, and the clock they read
services == <<limiter, translator, pending, now, log>>

vars == <<Clients, Rooms, client, room, timer, conn, http, sent, wins, left, bound, services>>

\* ------------------------------------------------------------- records
NameOf(token) == token

NewClient(name, language) ==
    [Name |-> name, Language |-> language, Connection |-> NoConn]

NewRoom(id, customer) ==
    [ID |-> id, Customer |-> customer, Agent |-> Nil, Status |-> RoomWaiting,
     Messages |-> <<>>, CloseTimer |-> NoTimer]

\* the empty string
NoText == <<>>

NoLanguage == <<>>

\* the n-th text typed, as the client typed it
Text(n) == <<ToString(n), " ">>

ChatMessage(from, content, translated) ==
    [Type |-> "message", From |-> from, Content |-> content,
     TranslatedContent |-> translated, Reason |-> ""]

RoomJoinedResponse ==
    [Type |-> "room_joined", From |-> "", Content |-> NoText,
     TranslatedContent |-> NoText, Reason |-> ""]

ChatEndedResponse(reason) ==
    [Type |-> "chat_ended", From |-> "", Content |-> NoText,
     TranslatedContent |-> NoText, Reason |-> reason]

ErrorResponse(message) ==
    [Type |-> "error", From |-> "", Content |-> NoText,
     TranslatedContent |-> NoText, Reason |-> message]

\* generateToken: a token (room id) no object has yet.
FreshToken(pool) == CHOOSE t \in pool \ DOMAIN client : TRUE
FreshRoomID(pool) == CHOOSE r \in pool \ DOMAIN room : TRUE

\* ------------------------------------------------------------- the Hub
GetClient(token) == token \in Clients

GetRoom(roomID) == roomID \in Rooms

\* GetWaitingRooms without its test of the status
GetWaitingRoomsAnyStatus == Rooms

GetWaitingRooms == {r \in Rooms : room[r].Status = RoomWaiting}

\* IsAgentInRoom without its test of the status
IsAgentInRoomAnyStatus(agentToken) ==
    \E r \in Rooms : /\ room[r].Agent # Nil
                     /\ room[r].Agent = agentToken

IsAgentInRoom(agentToken) ==
    \E r \in Rooms : /\ room[r].Agent # Nil
                     /\ room[r].Agent = agentToken
                     /\ room[r].Status = RoomActive

\* JoinRoom without its tests of the status and of the agent slot
JoinRoomErrAnyStatus(roomID) ==
    IF roomID \notin Rooms THEN ErrNotFound
    ELSE IF room[roomID].Customer = Nil THEN ErrNoCustomer
    ELSE Ok

\* JoinRoom without its test of the customer
JoinRoomErrAnyCustomer(roomID) ==
    IF roomID \notin Rooms THEN ErrNotFound
    ELSE IF room[roomID].Status # RoomWaiting THEN ErrNotAvailable
    ELSE IF room[roomID].Agent # Nil THEN ErrOccupied
    ELSE Ok

\* Hub.JoinRoom: the error it returns, Ok when it assigns the agent.
JoinRoomErr(roomID) ==
    IF roomID \notin Rooms THEN ErrNotFound
    ELSE IF room[roomID].Status # RoomWaiting THEN ErrNotAvailable
    ELSE IF room[roomID].Agent # Nil THEN ErrOccupied
    ELSE IF room[roomID].Customer = Nil THEN ErrNoCustomer
    ELSE Ok

\* Hub.JoinRoom: the rooms after the call.
JoinRoom(roomID, agent) ==
    IF JoinRoomErr(roomID) = Ok
    THEN [room EXCEPT ![roomID].Agent = agent, ![roomID].Status = RoomActive]
    ELSE room

\* Hub.CreateRoom / Hub.AddClient / Hub.RemoveClient / Hub.RemoveRoom, as the
\* maps after the call.
AddClient(token) == Clients \cup {token}

RemoveClient(token) == Clients \ {token}

CreateRoom(roomID) == Rooms \cup {roomID}

RemoveRoom(roomID) == Rooms \ {roomID}

\* writing one notice to the connection a Client's handle names
WriteTo(c, notice) ==
    IF c \in DOMAIN conn THEN [conn EXCEPT ![c].out = Append(@, notice)] ELSE conn

\* the handlers and callbacks that have begun and not yet returned (a
\* WebSocket handler blocked in conn.Read is not among them)
InFlight ==
    Cardinality(http)
    + Cardinality({k \in DOMAIN conn : conn[k].pc # "read"})
    + Cardinality({t \in DOMAIN timer : timer[t].st \in {"fired", "remove", "notify"}})

MayBegin == InFlight < bound.inflight

\* the ghost counters of a room after a write of its status
NoWins == [since |-> <<>>, ever |-> {}]

Won(roomID, agent) ==
    [wins EXCEPT ![roomID].since = Append(@, agent), ![roomID].ever = @ \cup {agent}]

Reset(roomID) == [wins EXCEPT ![roomID].since = <<>>]

Left(roomID, status) ==
    [left EXCEPT ![roomID] = @ \/ status # RoomWaiting]

\* ------------------------------------------------------------- REST handlers
\* A REST handler in flight: which handler, its position, the caller's token,
\* the room it holds, and its locals (other, reason, the slice it read); at
\* and agent are the status and the agent the room had when an end-chat
\* handler looked it up.
Handler(h, pc, who, roomID, other, reason, old) ==
    [h |-> h, pc |-> pc, who |-> who, room |-> roomID, other |-> other,
     reason |-> reason, old |-> old, at |-> "", agent |-> Nil]

Moved(rec, pc) == (http \ {rec}) \cup {[rec EXCEPT !.pc = pc]}

\* The tokens a caller can present: a token leaves the server in the
\* response of the handler that made it.
Issued == {t \in Clients : ~ \E rec \in http : rec.h = "start" /\ rec.who = t}

\* POST /set-profile: NewClient(name, language); hub.AddClient.
handleSetProfile(tokens, language) ==
    /\ tokens \ DOMAIN client # {}
    /\ LET a == FreshToken(tokens) IN
         /\ client' = (a :> NewClient(NameOf(a), language)) @@ client
         /\ Clients' = AddClient(a)
    /\ UNCHANGED <<Rooms, room, timer, conn, http, sent, wins, left, bound, services>>

\* POST /start-chat, up to the return of hub.CreateRoom: NewClient(name, ""),
\* hub.AddClient, hub.CreateRoom.  Nothing else can name the new token between
\* the two calls, so they are one step.
StartChatCreate(tokens, ids) ==
    /\ MayBegin
    /\ tokens \ DOMAIN client # {}
    /\ ids \ DOMAIN room # {}
    /\ LET c == FreshToken(tokens)
           r == FreshRoomID(ids)
       IN /\ client' = (c :> NewClient(NameOf(c), NoLanguage)) @@ client
          /\ Clients' = AddClient(c)
          /\ room' = (r :> NewRoom(r, c)) @@ room
          /\ Rooms' = CreateRoom(r)
          /\ wins' = (r :> NoWins) @@ wins
          /\ left' = (r :> FALSE) @@ left
          /\ http' = http \cup {Handler("start", "read", c, r, Nil, "", <<>>)}
    /\ UNCHANGED <<timer, conn, sent, bound, services>>

\* room.Messages = append(room.Messages, msg): the read of the slice ...
StartChatRead(rec) ==
    /\ rec.h = "start" /\ rec.pc = "read"
    /\ http' = (http \ {rec}) \cup
                 {[rec EXCEPT !.pc = "write", !.old = room[rec.room].Messages]}
    /\ UNCHANGED <<Clients, Rooms, client, room, timer, conn, sent, wins, left, bound, services>>

\* ... and the write of the longer slice; the first text of a room is Text(0).
\* The handler then answers with the room id and the customer's token.
StartChatWrite(rec) ==
    /\ rec.h = "start" /\ rec.pc = "write"
    /\ room' = [room EXCEPT ![rec.room].Messages =
                   Append(rec.old, ChatMessage(NameOf(rec.who), Text(0), NoText))]
    /\ http' = http \ {rec}
    /\ UNCHANGED <<Clients, Rooms, client, timer, conn, sent, wins, left, bound, services>>

\* POST /join-room, up to the call of hub.JoinRoom: hub.GetClient finds the
\* token, hub.IsAgentInRoom says no (409 otherwise: nothing changes).
JoinBegin(token, roomID) ==
    /\ MayBegin
    /\ GetClient(token)
    /\ ~IsAgentInRoom(token)
    /\ http' = http \cup {Handler("join", "join", token, roomID, Nil, "", <<>>)}
    /\ UNCHANGED <<Clients, Rooms, client, room, timer, conn, sent, wins, left, bound, services>>

\* hub.JoinRoom(req.RoomID, agent); the handler keeps the error it returned
JoinCall(rec) ==
    /\ rec.h = "join" /\ rec.pc = "join"
    /\ LET err == JoinRoomErr(rec.room) IN
         /\ room' = JoinRoom(rec.room, rec.who)
         /\ wins' = IF err = Ok THEN Won(rec.room, rec.who) ELSE wins
         /\ left' = IF err = Ok THEN Left(rec.room, RoomActive) ELSE left
         /\ http' = (http \ {rec}) \cup
                      {[rec EXCEPT !.pc = IF err = Ok THEN "notify" ELSE "error",
                                   !.reason = err]}
    /\ UNCHANGED <<Clients, Rooms, client, timer, conn, sent, bound, services>>

\* http.Error(w, err.Error(), http.StatusBadRequest)
JoinError(rec) ==
    /\ rec.h = "join" /\ rec.pc = "error"
    /\ http' = http \ {rec}
    /\ UNCHANGED <<Clients, Rooms, client, room, timer, conn, sent, wins, left, bound, services>>

\* the room_joined notice to the customer's connection, if it has one
JoinNotify(rec) ==
    /\ rec.h = "join" /\ rec.pc = "notify"
    /\ LET customer == room[rec.room].Customer IN
         conn' = IF customer # Nil /\ client[customer].Connection # NoConn
                 THEN WriteTo(client[customer].Connection, RoomJoinedResponse)
                 ELSE conn
    /\ http' = http \ {rec}
    /\ UNCHANGED <<Clients, Rooms, client, room, timer, sent, wins, left, bound, services>>

\* the timers made, and those the end-chat handlers in flight are about to make
TimersBegun ==
    Len(timer) + Cardinality({rec \in http : rec.h = "end" /\ rec.pc \in {"status", "agent", "timer"}
                                              /\ rec.reason = "agent_left"})

\* POST /end-chat, up to the branch on who is ending: hub.GetClient and
\* hub.GetRoom succeed (401 and 404 otherwise: nothing changes); the customer
\* of the room takes the first branch, every other caller the second.
EndBegin(token, roomID) ==
    /\ MayBegin
    /\ GetClient(token)
    /\ GetRoom(roomID)
    /\ \/ room[roomID].Customer # Nil /\ room[roomID].Customer = token
       \/ TimersBegun < bound.timers
    /\ http' = http \cup
         {[(IF room[roomID].Customer # Nil /\ room[roomID].Customer = token
            THEN Handler("end", "status", token, roomID, room[roomID].Agent, "customer_left", <<>>)
            ELSE Handler("end", "status", token, roomID, room[roomID].Customer, "agent_left", <<>>))
           EXCEPT !.at = room[roomID].Status, !.agent = room[roomID].Agent]}
    /\ UNCHANGED <<Clients, Rooms, client, room, timer, conn, sent, wins, left, bound, services>>

\* room.Status = RoomClosed (the customer), room.Status = RoomClosing (anyone else)
EndSetStatus(rec) ==
    /\ rec.h = "end" /\ rec.pc = "status"
    /\ LET status == IF rec.reason = "customer_left" THEN RoomClosed ELSE RoomClosing IN
         /\ room' = [room EXCEPT ![rec.room].Status = status]
         /\ left' = Left(rec.room, status)
    /\ http' = Moved(rec, IF rec.reason = "customer_left" THEN "remove" ELSE "agent")
    /\ wins' = Reset(rec.room)
    /\ UNCHANGED <<Clients, Rooms, client, timer, conn, sent, bound, services>>

\* hub.RemoveRoom(room.ID), the customer's branch
EndRemove(rec) ==
    /\ rec.h = "end" /\ rec.pc = "remove"
    /\ Rooms' = RemoveRoom(rec.room)
    /\ http' = Moved(rec, "notify")
    /\ wins' = Reset(rec.room)
    /\ UNCHANGED <<Clients, client, room, timer, conn, sent, left, bound, services>>

\* room.Agent = nil
EndClearAgent(rec) ==
    /\ rec.h = "end" /\ rec.pc = "agent"
    /\ room' = [room EXCEPT ![rec.room].Agent = Nil]
    /\ http' = Moved(rec, "timer")
    /\ wins' = Reset(rec.room)
    /\ UNCHANGED <<Clients, Rooms, client, timer, conn, sent, left, bound, services>>

\* a timer that is made stopped
TimerNeverFires(roomID, who) == [room |-> roomID, by |-> who, st |-> "stopped"]

\* A timer: the room its callback closes, the caller whose request made it,
\* and where it is: pending, or in its callback (fired, remove, notify), or
\* stopped, or done (the callback returned).
Timer(roomID, who) == [room |-> roomID, by |-> who, st |-> "pending"]

\* room.CloseTimer = time.AfterFunc(5*time.Minute, func() {...})
EndSchedule(rec) ==
    /\ rec.h = "end" /\ rec.pc = "timer"
    /\ timer' = Append(timer, Timer(rec.room, rec.who))
    /\ room' = [room EXCEPT ![rec.room].CloseTimer = Len(timer) + 1]
    /\ http' = Moved(rec, "notify")
    /\ wins' = Reset(rec.room)
    /\ UNCHANGED <<Clients, Rooms, client, conn, sent, left, bound, services>>

\* the chat_ended notice to the other participant's connection, if it has one
EndNotify(rec) ==
    /\ rec.h = "end" /\ rec.pc = "notify"
    /\ conn' = IF rec.other # Nil /\ client[rec.other].Connection # NoConn
               THEN WriteTo(client[rec.other].Connection, ChatEndedResponse(rec.reason))
               ELSE conn
    /\ http' = http \ {rec}
    /\ UNCHANGED <<Clients, Rooms, client, room, timer, sent, wins, left, bound, services>>

\* ------------------------------------------------------------- the close timer
\* The five minutes pass: the runtime starts the callback; Stop comes too late.
TimerFire(t) ==
    /\ MayBegin
    /\ timer[t].st = "pending"
    /\ timer' = [timer EXCEPT ![t].st = "fired"]
    /\ UNCHANGED <<Clients, Rooms, client, room, conn, http, sent, wins, left, bound, services>>

\* room.Status = RoomClosed
TimerClose(t) ==
    /\ timer[t].st = "fired"
    /\ room' = [room EXCEPT ![timer[t].room].Status = RoomClosed]
    /\ timer' = [timer EXCEPT ![t].st = "remove"]
    /\ wins' = Reset(timer[t].room)
    /\ left' = Left(timer[t].room, RoomClosed)
    /\ UNCHANGED <<Clients, Rooms, client, conn, http, sent, bound, services>>

\* hub.RemoveRoom(room.ID)
TimerRemove(t) ==
    /\ timer[t].st = "remove"
    /\ Rooms' = RemoveRoom(timer[t].room)
    /\ timer' = [timer EXCEPT ![t].st = "notify"]
    /\ wins' = Reset(timer[t].room)
    /\ UNCHANGED <<Clients, client, room, conn, http, sent, left, bound, services>>

\* the chat_ended notice, reason closed, to the customer's connection, if it has one
TimerNotify(t) ==
    /\ timer[t].st = "notify"
    /\ LET customer == room[timer[t].room].Customer IN
         conn' = IF customer # Nil /\ client[customer].Connection # NoConn
                 THEN WriteTo(client[customer].Connection, ChatEndedResponse("closed"))
                 ELSE conn
    /\ timer' = [timer EXCEPT ![t].st = "done"]
    /\ UNCHANGED <<Clients, Rooms, client, room, http, sent, wins, left, bound, services>>

\* a reopen that forgets to stop the timer
StopNothing(t) == timer

\* timer.Stop(): a pending timer never fires; any other timer is left alone.
Stop(t) ==
    IF t \in DOMAIN timer /\ timer[t].st = "pending"
    THEN [timer EXCEPT ![t].st = "stopped"]
    ELSE timer

\* ------------------------------------------------------------- prepareMessage
\* What generate returns to DetectLanguage and to Translate is the
\* environment's choice: an error, or the reply of the model.
Failure == [err |-> TRUE, text |-> NoText]

Reply(text) == [err |-> FALSE, text |-> text]

DetectOutcomes == {Reply(text) : text \in DetectReplies} \cup {Failure}

TranslateOutcomes == {Reply(text) : text \in TranslateReplies} \cup {Failure}

\* unicode.IsSpace, for the characters of the model
Whitespace == {" ", "\t", "\n", "\r", "\f"}

\* strings.TrimSpace: the string from its first to its last character that
\* is no white space
TrimSpace(str) ==
    LET black == {i \in 1..Len(str) : str[i] \notin Whitespace} IN
      IF black = {} THEN <<>>
      ELSE SubSeq(str, CHOOSE i \in black : \A j \in black : i <= j,
                       CHOOSE i \in black : \A j \in black : j <= i)

\* sender == room.Customer && sender.Language == ""
Detects(roomID, sender) ==
    sender = room[roomID].Customer /\ client[sender].Language = NoLanguage

\* sender.Language after prepareMessage
LanguageAfter(roomID, sender, det) ==
    IF Detects(roomID, sender) /\ ~det.err
    THEN TrimSpace(det.text)
    ELSE client[sender].Language

\* a test that lets equal languages through to the Translator
SkipsUnknown(from, to) == from = NoLanguage \/ to = NoLanguage

\* sender.Language == "" || recipient.Language == "" ||
\* sender.Language == recipient.Language
Skips(from, to) == from = NoLanguage \/ to = NoLanguage \/ from = to

\* a prepareMessage that adds the translation for every recipient
translateMessageAdded(roomID, recipient, msg, from, to, trn) ==
    IF Skips(from, to) THEN msg
    ELSE IF trn.err THEN msg
    ELSE [msg EXCEPT !.TranslatedContent = TrimSpace(trn.text)]

\* a prepareMessage that does not look at the error of Translate
translateMessageUnchecked(roomID, recipient, msg, from, to, trn) ==
    IF Skips(from, to) THEN msg
    ELSE IF recipient = room[roomID].Customer
         THEN [msg EXCEPT !.Content = TrimSpace(trn.text)]
         ELSE [msg EXCEPT !.TranslatedContent = TrimSpace(trn.text)]

\* prepareMessage from its test of the two languages on: msg as it is, or
\* with what Translate returned, trimmed, in the field the recipient reads
translateMessage(roomID, recipient, msg, from, to, trn) ==
    IF Skips(from, to) THEN msg
    ELSE IF trn.err THEN msg
    ELSE IF recipient = room[roomID].Customer
         THEN [msg EXCEPT !.Content = TrimSpace(trn.text)]
         ELSE [msg EXCEPT !.TranslatedContent = TrimSpace(trn.text)]

\* the ChatMessage prepareMessage returns
prepareMessage(roomID, sender, recipient, content, det, trn) ==
    LET msg == ChatMessage(client[sender].Name, content, NoText)
        from == LanguageAfter(roomID, sender, det)
        to == client[recipient].Language
    IN IF Detects(roomID, sender) /\ det.err THEN msg
       ELSE translateMessage(roomID, recipient, msg, from, to, trn)

\* ------------------------------------------------------------- GET /ws
\* A WebSocket handler: its client, room and recipient, its position, the
\* notices written to its connection, and the locals of the step it is in;
\* at is the status the room had when the payload it is handling arrived,
\* seen the texts it admitted, in order, and live the texts the handler of
\* the counterpart delivered to its connection, in order.
Conn(token, roomID, recipient, pc, snap) ==
    [client |-> token, room |-> roomID, recipient |-> recipient, pc |-> pc,
     out |-> <<>>, snap |-> snap, old |-> <<>>, content |-> NoText, at |-> "",
     seen |-> <<>>, live |-> <<>>]

\* the deferred client.Connection = nil and conn.Close of handler k
Closed(k) == [x \in DOMAIN conn \ {k} |-> conn[x]]

Detached(k) == [client EXCEPT ![conn[k].client].Connection = NoConn]

\* a handler that admits the customer only
InRoomAsCustomer(token, roomID) ==
    ~ (room[roomID].Customer = Nil \/ room[roomID].Customer # token)

\* the test that the client belongs to the room
InRoom(token, roomID) ==
    ~ ( /\ (room[roomID].Customer = Nil \/ room[roomID].Customer # token)
        /\ (room[roomID].Agent = Nil \/ room[roomID].Agent # token) )

\* what the handler answers to the upgrade request: the text of its refusal,
\* or Ok when it accepts the connection
WsAnswer(token, roomID) ==
    IF ~GetClient(token) THEN "invalid token"
    ELSE IF ~GetRoom(roomID) THEN "room not found"
    ELSE IF ~InRoom(token, roomID) THEN "you are not in this room"
    ELSE Ok

\* The handler refuses the request: http.Error and return.
WsRefuse(token, roomID) ==
    /\ MayBegin
    /\ WsAnswer(token, roomID) # Ok
    /\ http' = http \cup {Handler("ws", "error", token, roomID, Nil, WsAnswer(token, roomID), <<>>)}
    /\ UNCHANGED <<Clients, Rooms, client, room, timer, conn, sent, wins, left, bound, services>>

WsError(rec) ==
    /\ rec.h = "ws" /\ rec.pc = "error"
    /\ http' = http \ {rec}
    /\ UNCHANGED <<Clients, Rooms, client, room, timer, conn, sent, wins, left, bound, services>>

\* The handler up to its read loop: the token is a client's, the room is in
\* the hub, the client is the room's customer or agent (401, 404, 403
\* otherwise: nothing changes); client.Connection = conn; the recipient is
\* the room's other slot as it is now; the agent gets the history.
WsConnect(token, roomID) ==
    /\ MayBegin
    /\ bound.conns \ DOMAIN conn # {}
    /\ GetClient(token)
    /\ GetRoom(roomID)
    /\ InRoom(token, roomID)
    /\ LET k == CHOOSE x \in bound.conns \ DOMAIN conn : TRUE
           recipient == IF room[roomID].Customer = token
                        THEN room[roomID].Agent
                        ELSE room[roomID].Customer
           history == IF token = room[roomID].Agent THEN room[roomID].Messages ELSE <<>>
       IN /\ conn' = (k :> Conn(token, roomID, recipient,
                                IF history = <<>> THEN "read" ELSE "replay", history)) @@ conn
          /\ client' = [client EXCEPT ![token].Connection = k]
    /\ UNCHANGED <<Clients, Rooms, room, timer, http, sent, wins, left, bound, services>>

\* one turn of the history loop: prepareMessage(translator, room,
\* room.Customer, client, msg.Content), written to the agent's own connection
WsReplay(k, det, trn) ==
    /\ k \in DOMAIN conn /\ conn[k].pc = "replay"
    /\ LET roomID == conn[k].room
           sender == room[roomID].Customer
           chatMsg == prepareMessage(roomID, sender, conn[k].client,
                                     Head(conn[k].snap).Content, det, trn)
           rest == Tail(conn[k].snap)
       IN /\ client' = [client EXCEPT ![sender].Language = LanguageAfter(roomID, sender, det)]
          /\ conn' = [conn EXCEPT ![k].out = Append(@, chatMsg),
                                  ![k].snap = rest,
                                  ![k].pc = IF rest = <<>> THEN "read" ELSE "replay"]
    /\ UNCHANGED <<Clients, Rooms, room, timer, http, sent, wins, left, bound, services>>

\* a handler that records a payload before it asks the limiter
WsRecvRecords(k, outcome) ==
    /\ k \in DOMAIN conn /\ conn[k].pc = "read"
    /\ MayBegin
    /\ sent < bound.messages
    /\ sent' = sent + 1
    /\ conn' = CASE outcome = "invalid json" -> conn
                 [] outcome = "rate limit exceeded" ->
                      [conn EXCEPT ![k].out = Append(@, ErrorResponse("rate limit exceeded"))]
                 [] outcome = "admitted" ->
                      [conn EXCEPT ![k].pc = "append",
                                   ![k].old = room[conn[k].room].Messages,
                                   ![k].content = Text(sent + 1),
                                   ![k].at = room[conn[k].room].Status,
                                   ![k].seen = Append(@, Text(sent + 1))]
    /\ room' = IF outcome = "rate limit exceeded"
               THEN [room EXCEPT ![conn[k].room].Messages =
                       Append(@, ChatMessage(client[conn[k].client].Name, Text(sent + 1), NoText))]
               ELSE room
    /\ UNCHANGED <<Clients, Rooms, client, timer, http, wins, left, bound, services>>

\* conn.Read returns a payload.  It does not decode (continue); or the limiter
\* refuses it (an error notice to the sender, continue); or it is admitted and
\* the append to room.Messages begins with the read of the slice.
WsRecv(k, outcome) ==
    /\ k \in DOMAIN conn /\ conn[k].pc = "read"
    /\ MayBegin
    /\ sent < bound.messages
    /\ sent' = sent + 1
    /\ conn' = CASE outcome = "invalid json" -> conn
                 [] outcome = "rate limit exceeded" ->
                      [conn EXCEPT ![k].out = Append(@, ErrorResponse("rate limit exceeded"))]
                 [] outcome = "admitted" ->
                      [conn EXCEPT ![k].pc = "append",
                                   ![k].old = room[conn[k].room].Messages,
                                   ![k].content = Text(sent + 1),
                                   ![k].at = room[conn[k].room].Status,
                                   ![k].seen = Append(@, Text(sent + 1))]
    /\ UNCHANGED <<Clients, Rooms, client, room, timer, http, wins, left, bound, services>>

\* a handler that puts the message in front of the history
WsAppendInFront(k) ==
    /\ k \in DOMAIN conn /\ conn[k].pc = "append"
    /\ LET roomID == conn[k].room IN
         room' = [room EXCEPT ![roomID].Messages =
                    <<ChatMessage(client[conn[k].client].Name, conn[k].content, NoText)>>
                    \o conn[k].old]
    /\ conn' = [conn EXCEPT ![k].pc = "status", ![k].old = <<>>]
    /\ UNCHANGED <<Clients, Rooms, client, timer, http, sent, wins, left, bound, services>>

\* room.Messages = append(room.Messages, ChatMessage{...}): the write
WsAppend(k) ==
    /\ k \in DOMAIN conn /\ conn[k].pc = "append"
    /\ LET roomID == conn[k].room IN
         room' = [room EXCEPT ![roomID].Messages =
                    Append(conn[k].old,
                           ChatMessage(client[conn[k].client].Name, conn[k].content, NoText))]
    /\ conn' = [conn EXCEPT ![k].pc = "status", ![k].old = <<>>]
    /\ UNCHANGED <<Clients, Rooms, client, timer, http, sent, wins, left, bound, services>>

\* room.Status == RoomClosed: an error notice to the sender and break.
\* Otherwise the test for a reopen.
WsCheck(k) ==
    /\ k \in DOMAIN conn /\ conn[k].pc = "status"
    /\ LET roomID == conn[k].room IN
         IF room[roomID].Status = RoomClosed
         THEN conn' = [conn EXCEPT ![k].pc = "break",
                                   ![k].out = Append(@, ErrorResponse("room is closed"))]
         ELSE conn' = [conn EXCEPT ![k].pc =
                         IF /\ room[roomID].Status = RoomClosing
                            /\ room[roomID].Customer # Nil
                            /\ room[roomID].Customer = conn[k].client
                         THEN "reopen" ELSE "deliver"]
    /\ UNCHANGED <<Clients, Rooms, client, room, timer, http, sent, wins, left, bound, services>>

\* the break out of the loop: the deferred detach and close run
WsBreak(k) ==
    /\ k \in DOMAIN conn /\ conn[k].pc = "break"
    /\ conn' = Closed(k)
    /\ client' = Detached(k)
    /\ UNCHANGED <<Clients, Rooms, room, timer, http, sent, wins, left, bound, services>>

\* room.CloseTimer.Stop(); room.CloseTimer = nil; room.Status = RoomWaiting
WsReopen(k) ==
    /\ k \in DOMAIN conn /\ conn[k].pc = "reopen"
    /\ LET roomID == conn[k].room IN
         /\ timer' = IF room[roomID].CloseTimer # NoTimer
                     THEN Stop(room[roomID].CloseTimer) ELSE timer
         /\ room' = [room EXCEPT ![roomID].CloseTimer = NoTimer,
                                 ![roomID].Status = RoomWaiting]
         /\ wins' = Reset(roomID)
    /\ conn' = [conn EXCEPT ![k].pc = "deliver"]
    /\ UNCHANGED <<Clients, Rooms, client, http, sent, left, bound, services>>

\* recipient == nil || recipient.Connection == nil: continue.  Otherwise
\* prepareMessage(translator, room, client, recipient, msg.Content), written
\* to recipient.Connection.
WsDeliver(k, det, trn) ==
    /\ k \in DOMAIN conn /\ conn[k].pc = "deliver"
    /\ LET roomID == conn[k].room
           sender == conn[k].client
           recipient == conn[k].recipient
           idle == [conn EXCEPT ![k].pc = "read", ![k].content = NoText, ![k].at = ""]
       IN IF recipient = Nil \/ client[recipient].Connection = NoConn
          THEN /\ conn' = idle
               /\ client' = client
          ELSE /\ conn' = [idle EXCEPT ![client[recipient].Connection].out =
                             Append(@, prepareMessage(roomID, sender, recipient,
                                                      conn[k].content, det, trn)),
                                       ![client[recipient].Connection].live =
                             Append(@, conn[k].content)]
               /\ client' = [client EXCEPT ![sender].Language =
                               LanguageAfter(roomID, sender, det)]
    /\ UNCHANGED <<Clients, Rooms, room, timer, http, sent, wins, left, bound, services>>

\* conn.Read fails: break, and the deferred detach and close run.
WsDisconnect(k) ==
    /\ k \in DOMAIN conn /\ conn[k].pc = "read"
    /\ conn' = Closed(k)
    /\ client' = Detached(k)
    /\ UNCHANGED <<Clients, Rooms, room, timer, http, sent, wins, left, bound, services>>

\* ------------------------------------------------------------- callers of the Hub
\* hub.CreateRoom(customer), by a caller that holds the Hub: the customer is
\* any *Client, nil included.
HubCreateRoom(ids, customer) ==
    /\ ids \ DOMAIN room # {}
    /\ LET r == FreshRoomID(ids) IN
         /\ room' = (r :> NewRoom(r, customer)) @@ room
         /\ Rooms' = CreateRoom(r)
         /\ wins' = (r :> NoWins) @@ wins
         /\ left' = (r :> FALSE) @@ left
    /\ UNCHANGED <<Clients, client, timer, conn, http, sent, bound, services>>

\* hub.JoinRoom(roomID, agent); http keeps what the calls returned
HubJoinRoom(roomID, agent) ==
    /\ LET err == JoinRoomErr(roomID) IN
         /\ room' = JoinRoom(roomID, agent)
         /\ wins' = IF err = Ok THEN Won(roomID, agent) ELSE wins
         /\ left' = IF err = Ok THEN Left(roomID, RoomActive) ELSE left
         /\ http' = http \cup {Handler("join", "returned", agent, roomID, Nil, err, <<>>)}
    /\ UNCHANGED <<Clients, Rooms, client, timer, conn, sent, bound, services>>

\* hub.RemoveRoom(roomID)
HubRemoveRoom(roomID) ==
    /\ roomID \in DOMAIN room
    /\ Rooms' = RemoveRoom(roomID)
    /\ wins' = Reset(roomID)
    /\ UNCHANGED <<Clients, client, room, timer, conn, http, sent, left, bound, services>>

\* room.Status = status: the field is exported and written without the lock
SetStatus(roomID, status) ==
    /\ roomID \in DOMAIN room
    /\ room' = [room EXCEPT ![roomID].Status = status]
    /\ wins' = Reset(roomID)
    /\ left' = Left(roomID, status)
    /\ UNCHANGED <<Clients, Rooms, client, timer, conn, http, sent, bound, services>>

\* room.Agent = nil
ClearAgent(roomID) ==
    /\ roomID \in DOMAIN room
    /\ room' = [room EXCEPT ![roomID].Agent = Nil]
    /\ wins' = Reset(roomID)
    /\ UNCHANGED <<Clients, Rooms, client, timer, conn, http, sent, left, bound, services>>

\* hub.JoinRoom(roomID, agent), by a caller that drops what it returns
HubJoinRoomDropped(roomID, agent) ==
    /\ LET err == JoinRoomErr(roomID) IN
         /\ room' = JoinRoom(roomID, agent)
         /\ wins' = IF err = Ok THEN Won(roomID, agent) ELSE wins
         /\ left' = IF err = Ok THEN Left(roomID, RoomActive) ELSE left
    /\ UNCHANGED <<Clients, Rooms, client, timer, conn, http, sent, bound, services>>

\* hub.RemoveClient(token)
HubRemoveClient(token) ==
    /\ Clients' = RemoveClient(token)
    /\ UNCHANGED <<Rooms, client, room, timer, conn, http, sent, wins, left, bound, services>>

\* what IsAgentInRoom has returned: the token it was asked about and its result
Asked(token, ok) == [token |-> token, ok |-> ok]

\* hub.IsAgentInRoom(agentToken); log keeps what the calls returned
HubIsAgentInRoom(agentToken) ==
    /\ Len(log) < MaxQueries
    /\ log' = Append(log, Asked(agentToken, IsAgentInRoom(agentToken)))
    /\ UNCHANGED <<Clients, Rooms, client, room, timer, conn, http, sent, wins, left, bound,
                   limiter, translator, pending, now>>

\* ------------------------------------------------------------- the clock
\* Time passes between two steps.
Tick ==
    /\ now < MaxClock
    /\ now' = now + 1
    /\ UNCHANGED <<Clients, Rooms, client, room, timer, conn, http, sent, wins, left, bound,
                   limiter, translator, pending, log>>

\* ------------------------------------------------------------- the RateLimiter
NewRateLimiter(maxMessages, window) ==
    [limits |-> <<>>, maxMessages |-> maxMessages, window |-> window]

\* r.limits[token]: nil for a token the map does not hold
Stamps(token) ==
    IF token \in DOMAIN limiter.limits THEN limiter.limits[token] ELSE <<>>

\* a limiter that keeps one list of timestamps for all the tokens
RecentOfAll(token, cutoff) ==
    SelectSeq(IF DOMAIN limiter.limits = {} THEN <<>>
              ELSE limiter.limits[CHOOSE x \in DOMAIN limiter.limits : TRUE],
              LAMBDA t : t > cutoff)

\* a limiter that never forgets a timestamp
RecentForever(token, cutoff) == Stamps(token)

\* the timestamps of the token for which t.After(cutoff)
Recent(token, cutoff) ==
    SelectSeq(Stamps(token), LAMBDA t : t > cutoff)

\* what Allow has returned: the token, the time of its first reading of the
\* clock, the timestamp it stored (if it returned true) and its result
Allowed(token, at, stamp, ok) ==
    [token |-> token, at |-> at, stamp |-> stamp, ok |-> ok]

\* RateLimiter.Allow(token), under r.mu.  It reads the clock for the cutoff
\* and, if it admits the call, once more for the timestamp it stores: later
\* is the time that passed between the two readings.
Allow(token, later) ==
    /\ Len(log) < MaxCalls
    /\ now + later <= MaxClock
    /\ LET cutoff == now - limiter.window
           recent == Recent(token, cutoff)
           ok == ~ (Len(recent) >= limiter.maxMessages)
       IN /\ limiter' = [limiter EXCEPT !.limits =
                           (token :> (IF ok THEN Append(recent, now + later) ELSE recent)) @@ @]
          /\ now' = IF ok THEN now + later ELSE now
          /\ log' = Append(log, Allowed(token, now, now + later, ok))
    /\ UNCHANGED <<Clients, Rooms, client, room, timer, conn, http, sent, wins, left, bound,
                   translator, pending>>

\* ------------------------------------------------------------- the Translator
NewTranslator(cacheTTL) == [cache |-> <<>>, cacheTTL |-> cacheTTL]

\* fromLanguage + ":" + toLanguage + ":" + text, a string being the sequence
\* of its characters
Key(text, fromLanguage, toLanguage) ==
    fromLanguage \o <<":">> \o toLanguage \o <<":">> \o text

\* a lookup that never finds an entry too old
ExpiredNever(key) == key \notin DOMAIN translator.cache

\* time.Since(translated.createdAt) > t.cacheTTL; the zero createdAt of an
\* entry the map does not hold is long ago
Expired(key) ==
    key \notin DOMAIN translator.cache
    \/ now - translator.cache[key].createdAt > translator.cacheTTL

\* what Translate has returned: the key, the time and the length of the log
\* when it looked the key up, the time it returned, the text and the error
\* it returned, and whether it called generate
Translated(key, asked, seen, at, text, err, generated) ==
    [key |-> key, asked |-> asked, seen |-> seen, at |-> at, text |-> text,
     err |-> err, generated |-> generated]

\* Translator.Translate up to the branch on the lookup: the read of the
\* cache under the read lock, the test of the age.  A hit returns the text of
\* the entry; a miss goes on to generate.
Translate(text, fromLanguage, toLanguage) ==
    /\ Len(log) + Cardinality(pending) < MaxTranslations
    /\ LET key == Key(text, fromLanguage, toLanguage) IN
         IF key \notin DOMAIN translator.cache \/ Expired(key)
         THEN /\ Cardinality(pending) < MaxPending
              /\ pending' = pending \cup {[key |-> key, asked |-> now, seen |-> Len(log)]}
              /\ log' = log
         ELSE /\ log' = Append(log, Translated(key, now, Len(log), now,
                                               translator.cache[key].text, FALSE, FALSE))
              /\ pending' = pending
    /\ UNCHANGED <<Clients, Rooms, client, room, timer, conn, http, sent, wins, left, bound,
                   limiter, translator, now>>

\* generate returns: an error, which Translate returns as it is; or the
\* text, which Translate stores under the key with the time of now and
\* returns.
TranslateStore(call, answer, err) ==
    /\ call \in pending
    /\ pending' = pending \ {call}
    /\ translator' =
         IF err THEN translator
         ELSE [translator EXCEPT !.cache =
                 (call.key :> [text |-> answer, createdAt |-> now]) @@ @]
    /\ log' = Append(log, Translated(call.key, call.asked, call.seen, now, answer, err, TRUE))
    /\ UNCHANGED <<Clients, Rooms, client, room, timer, conn, http, sent, wins, left, bound,
                   limiter, now>>

\* ------------------------------------------------------------- the read loop and the RateLimiter
\* RateLimiter.Allow(token) in one step, its two readings of the clock at
\* the same instant: what it returns and the map after it
AllowReturns(token) ==
    LET cutoff == now - limiter.window
        recent == Recent(token, cutoff)
        ok == ~ (Len(recent) >= limiter.maxMessages)
    IN [ok |-> ok,
        limits |-> (token :> (IF ok THEN Append(recent, now) ELSE recent)) @@ limiter.limits]

\* a loop that asks the limiter before it decodes the payload
ReadingCounted(k, decodes) ==
    [AllowReturns(conn[k].client) EXCEPT !.ok = @ /\ decodes]

\* the head of the loop: json.Unmarshal fails and nothing is asked
\* (continue), or limiter.Allow(client.Token) is called
Reading(k, decodes) ==
    IF ~decodes THEN [ok |-> FALSE, limits |-> limiter.limits]
    ELSE AllowReturns(conn[k].client)

\* what a conn.Read led to: the connection, its client, whether the payload
\* decoded and whether the limiter admitted it
Read(k, decodes, allowed) ==
    [conn |-> k, token |-> conn[k].client, decodes |-> decodes, allowed |-> allowed]

\* conn.Read returns a payload, with the limiter.  It does not decode
\* (continue); or Allow refuses it (an error notice to the sender,
\* continue); or it is admitted and the append to room.Messages begins.
WsRead(k, decodes) ==
    /\ k \in DOMAIN conn /\ conn[k].pc = "read"
    /\ MayBegin
    /\ sent < bound.messages
    /\ sent' = sent + 1
    /\ LET a == Reading(k, decodes) IN
         /\ limiter' = [limiter EXCEPT !.limits = a.limits]
         /\ log' = Append(log, Read(k, decodes, a.ok))
         /\ conn' = IF ~decodes THEN conn
                    ELSE IF ~a.ok
                    THEN [conn EXCEPT ![k].out = Append(@, ErrorResponse("rate limit exceeded"))]
                    ELSE [conn EXCEPT ![k].pc = "append",
                                      ![k].old = room[conn[k].room].Messages,
                                      ![k].content = Text(sent + 1),
                                      ![k].at = room[conn[k].room].Status,
                                      ![k].seen = Append(@, Text(sent + 1))]
    /\ UNCHANGED <<Clients, Rooms, client, room, timer, http, wins, left, bound,
                   translator, pending, now>>

\* ------------------------------------------------------------- callers of prepareMessage
\* Translator.Translate in one step, gen being what generate returns if it
\* is called: what Translate returns, what it called, and the cache after it
TranslateReturns(text, fromLanguage, toLanguage, gen) ==
    LET key == Key(text, fromLanguage, toLanguage) IN
      IF ~Expired(key)
      THEN [trn |-> Reply(translator.cache[key].text), calls |-> {"Translate"},
            cache |-> translator.cache]
      ELSE [trn |-> gen, calls |-> {"Translate", "generate"},
            cache |-> IF gen.err THEN translator.cache
                      ELSE (key :> [text |-> gen.text, createdAt |-> now])
                           @@ translator.cache]

\* what a call of Translate was given, what it returned and what it called
Looked(text, fromLanguage, toLanguage, trn, calls) ==
    [text |-> text, from |-> fromLanguage, to |-> toLanguage, trn |-> trn, calls |-> calls]

\* translator.Translate(text, fromLanguage, toLanguage) by a caller, one
\* call at a time
TranslateCall(text, fromLanguage, toLanguage, gen) ==
    /\ Len(log) < MaxLookups
    /\ LET t == TranslateReturns(text, fromLanguage, toLanguage, gen) IN
         /\ log' = Append(log, Looked(text, fromLanguage, toLanguage, t.trn, t.calls))
         /\ translator' = [translator EXCEPT !.cache = t.cache]
    /\ UNCHANGED <<Clients, Rooms, client, room, timer, conn, http, sent, wins, left, bound,
                   limiter, pending, now>>

\* prepareMessage from its test of the two languages on, with the
\* Translator: the record it returns, what it called, and the cache after it
Translating(roomID, sender, recipient, content, from, gen) ==
    LET msg == ChatMessage(client[sender].Name, content, NoText)
        to == client[recipient].Language
        t == TranslateReturns(content, from, to, gen)
    IN IF Skips(from, to)
       THEN [msg |-> msg, calls |-> {}, cache |-> translator.cache]
       ELSE [msg |-> translateMessage(roomID, recipient, msg, from, to, t.trn),
             calls |-> t.calls, cache |-> t.cache]

\* what prepareMessage has returned: its arguments, the record, and the
\* methods of the Translator it called
Prepared(call, msg, calls) ==
    [sender |-> call.sender, recipient |-> call.recipient, content |-> call.content,
     msg |-> msg, calls |-> calls]

\* prepareMessage(translator, room, sender, recipient, content), by the
\* handler of a connection.  If the sender is the customer and has no
\* language, it calls DetectLanguage, which takes its time: other handlers
\* run meanwhile.  Otherwise it goes on to the translation and returns.
PrepareBegin(roomID, sender, recipient, content, gen) ==
    /\ Len(log) + Cardinality(pending) < MaxPrepares
    /\ LET call == [id |-> Len(log) + Cardinality(pending) + 1, room |-> roomID,
                    sender |-> sender, recipient |-> recipient, content |-> content]
           t == Translating(roomID, sender, recipient, content, client[sender].Language, gen)
       IN IF Detects(roomID, sender)
          THEN /\ pending' = pending \cup {call}
               /\ UNCHANGED <<translator, log>>
          ELSE /\ log' = Append(log, Prepared(call, t.msg, t.calls))
               /\ translator' = [translator EXCEPT !.cache = t.cache]
               /\ UNCHANGED pending
    /\ UNCHANGED <<Clients, Rooms, client, room, timer, conn, http, sent, wins, left, bound,
                   limiter, now>>

\* DetectLanguage returns.  On an error prepareMessage returns msg; otherwise
\* it stores the trimmed reply as the sender's language, goes on to the
\* translation and returns.
PrepareDetected(call, det, gen) ==
    /\ call \in pending
    /\ pending' = pending \ {call}
    /\ LET lang == TrimSpace(det.text)
           t == Translating(call.room, call.sender, call.recipient, call.content, lang, gen)
       IN IF det.err
          THEN /\ log' = Append(log, Prepared(call,
                              ChatMessage(client[call.sender].Name, call.content, NoText),
                              {"DetectLanguage"}))
               /\ UNCHANGED <<client, translator>>
          ELSE /\ client' = [client EXCEPT ![call.sender].Language = lang]
               /\ log' = Append(log, Prepared(call, t.msg, t.calls \cup {"DetectLanguage"}))
               /\ translator' = [translator EXCEPT !.cache = t.cache]
    /\ UNCHANGED <<Clients, Rooms, room, timer, conn, http, sent, wins, left, bound,
                   limiter, now>>

\* ------------------------------------------------------------- specifications
\* NewHub(): empty maps; no handler has run.
NewHub(limits) ==
    /\ Clients = {}
    /\ Rooms = {}
    /\ client = <<>>
    /\ room = <<>>
    /\ timer = <<>>
    /\ conn = <<>>
    /\ http = {}
    /\ sent = 0
    /\ wins = <<>>
    /\ left = <<>>
    /\ bound = limits

\* LoadConfig without an environment: RATE_LIMIT, RATE_LIMIT_WINDOW and
\* CACHE_TTL, the two durations in minutes.
LoadConfig == [RateLimit |-> 10, RateLimitWindow |-> 1, CacheTTL |-> 10]

\* main, up to ListenAndServe: the hub, the translator and the limiter.
main(limits, cfg) ==
    /\ NewHub(limits)
    /\ translator = NewTranslator(cfg.CacheTTL)
    /\ limiter = NewRateLimiter(cfg.RateLimit, cfg.RateLimitWindow)
    /\ pending = {}
    /\ now = 0
    /\ log = <<>>

Init == main(Concurrent, LoadConfig)

InitSerial == main(Serial, LoadConfig)

Next ==
    \/ \E language \in AgentLanguages : handleSetProfile(AgentTokens, language)
    \/ StartChatCreate(CustomerTokens, RoomIDs)
    \/ \E rec \in http : StartChatRead(rec)
    \/ \E rec \in http : StartChatWrite(rec)
    \/ \E token \in AgentTokens, roomID \in RoomIDs : JoinBegin(token, roomID)
    \/ \E rec \in http : JoinCall(rec)
    \/ \E rec \in http : JoinError(rec)
    \/ \E rec \in http : JoinNotify(rec)
    \/ \E token \in Issued, roomID \in RoomIDs : EndBegin(token, roomID)
    \/ \E rec \in http : EndSetStatus(rec)
    \/ \E rec \in http : EndRemove(rec)
    \/ \E rec \in http : EndClearAgent(rec)
    \/ \E rec \in http : EndSchedule(rec)
    \/ \E rec \in http : EndNotify(rec)
    \/ \E t \in DOMAIN timer : TimerFire(t)
    \/ \E t \in DOMAIN timer : TimerClose(t)
    \/ \E t \in DOMAIN timer : TimerRemove(t)
    \/ \E t \in DOMAIN timer : TimerNotify(t)
    \/ \E token \in Issued, roomID \in RoomIDs : WsConnect(token, roomID)
    \/ \E k \in DOMAIN conn, det \in DetectOutcomes, trn \in TranslateOutcomes : WsReplay(k, det, trn)
    \/ \E k \in DOMAIN conn, outcome \in {"invalid json", "rate limit exceeded", "admitted"} :
          WsRecv(k, outcome)
    \/ \E k \in DOMAIN conn : WsAppend(k)
    \/ \E k \in DOMAIN conn : WsCheck(k)
    \/ \E k \in DOMAIN conn : WsBreak(k)
    \/ \E k \in DOMAIN conn : WsReopen(k)
    \/ \E k \in DOMAIN conn, det \in DetectOutcomes, trn \in TranslateOutcomes : WsDeliver(k, det, trn)
    \/ \E k \in DOMAIN conn : WsDisconnect(k)

Spec == Init /\ [][Next]_vars

SpecSerial == InitSerial /\ [][Next]_vars

HubNext ==
    \/ \E language \in AgentLanguages : handleSetProfile(HubTokens, language)
    \/ \E customer \in DOMAIN client \cup {Nil} : HubCreateRoom(HubRoomIDs, customer)
    \/ \E roomID \in HubRoomIDs, agent \in DOMAIN client : HubJoinRoom(roomID, agent)
    \/ \E roomID \in HubRoomIDs : HubRemoveRoom(roomID)
    \/ \E roomID \in HubRoomIDs, status \in {RoomWaiting, RoomActive, RoomClosing, RoomClosed} :
          SetStatus(roomID, status)
    \/ \E roomID \in HubRoomIDs : ClearAgent(roomID)

SpecHub == Init /\ [][HubNext]_vars

\* The callers of the Hub, with the removal of a client and the question
\* whether an agent is in a room.
RegistryNext ==
    \/ \E language \in AgentLanguages : handleSetProfile(HubTokens, language)
    \/ \E customer \in DOMAIN client \cup {Nil} : HubCreateRoom(HubRoomIDs, customer)
    \/ \E roomID \in HubRoomIDs, agent \in DOMAIN client : HubJoinRoomDropped(roomID, agent)
    \/ \E roomID \in HubRoomIDs : HubRemoveRoom(roomID)
    \/ \E roomID \in HubRoomIDs, status \in {RoomWaiting, RoomActive, RoomClosing, RoomClosed} :
          SetStatus(roomID, status)
    \/ \E roomID \in HubRoomIDs : ClearAgent(roomID)
    \/ \E token \in HubTokens \cup FakeTokens : HubRemoveClient(token)
    \/ \E token \in HubTokens \cup FakeTokens : HubIsAgentInRoom(token)

SpecRegistry == Init /\ [][RegistryNext]_vars

\* The server with the upgrade requests it refuses.
InitChat == main(Paired, LoadConfig)

ChatNext ==
    \/ Next
    \/ \E token \in CustomerTokens \cup AgentTokens, roomID \in RoomIDs : WsRefuse(token, roomID)
    \/ \E rec \in http : WsError(rec)

SpecChat == InitChat /\ [][ChatNext]_vars

\* The server while nobody asks to end a chat: a room is set up, joined and
\* talked in, concurrently.
InitTalk == main(Talking, LoadConfig)

TalkNext ==
    \/ \E language \in AgentLanguages : handleSetProfile(JoinAgents, language)
    \/ StartChatCreate(CustomerTokens, RoomIDs)
    \/ \E rec \in http : StartChatRead(rec)
    \/ \E rec \in http : StartChatWrite(rec)
    \/ \E token \in JoinAgents, roomID \in RoomIDs : JoinBegin(token, roomID)
    \/ \E rec \in http : JoinCall(rec)
    \/ \E rec \in http : JoinError(rec)
    \/ \E rec \in http : JoinNotify(rec)
    \/ \E token \in Issued, roomID \in RoomIDs : WsConnect(token, roomID)
    \/ \E k \in DOMAIN conn, det \in DetectOutcomes, trn \in TranslateOutcomes : WsReplay(k, det, trn)
    \/ \E k \in DOMAIN conn, outcome \in {"invalid json", "rate limit exceeded", "admitted"} :
          WsRecv(k, outcome)
    \/ \E k \in DOMAIN conn : WsAppend(k)
    \/ \E k \in DOMAIN conn : WsCheck(k)
    \/ \E k \in DOMAIN conn, det \in DetectOutcomes, trn \in TranslateOutcomes : WsDeliver(k, det, trn)
    \/ \E k \in DOMAIN conn : WsDisconnect(k)

SpecTalk == InitTalk /\ [][TalkNext]_vars

\* The setup requests alone, concurrent, with two rooms to join.
JoinNext ==
    \/ \E language \in AgentLanguages : handleSetProfile(JoinAgents, language)
    \/ StartChatCreate(JoinCustomers, JoinRoomIDs)
    \/ \E rec \in http : StartChatRead(rec)
    \/ \E rec \in http : StartChatWrite(rec)
    \/ \E token \in JoinAgents, roomID \in JoinRoomIDs : JoinBegin(token, roomID)
    \/ \E rec \in http : JoinCall(rec)
    \/ \E rec \in http : JoinError(rec)
    \/ \E rec \in http : JoinNotify(rec)

SpecJoin == Init /\ [][JoinNext]_vars

\* The server with one agent, one request at a time.
InitEnd == main(Ending, LoadConfig)

EndNext ==
    \/ \E language \in AgentLanguages : handleSetProfile(JoinAgents, language)
    \/ StartChatCreate(CustomerTokens, RoomIDs)
    \/ \E rec \in http : StartChatRead(rec)
    \/ \E rec \in http : StartChatWrite(rec)
    \/ \E token \in JoinAgents, roomID \in RoomIDs : JoinBegin(token, roomID)
    \/ \E rec \in http : JoinCall(rec)
    \/ \E rec \in http : JoinError(rec)
    \/ \E rec \in http : JoinNotify(rec)
    \/ \E token \in Issued, roomID \in RoomIDs : EndBegin(token, roomID)
    \/ \E rec \in http : EndSetStatus(rec)
    \/ \E rec \in http : EndRemove(rec)
    \/ \E rec \in http : EndClearAgent(rec)
    \/ \E rec \in http : EndSchedule(rec)
    \/ \E rec \in http : EndNotify(rec)
    \/ \E t \in DOMAIN timer : TimerFire(t)
    \/ \E t \in DOMAIN timer : TimerClose(t)
    \/ \E t \in DOMAIN timer : TimerRemove(t)
    \/ \E t \in DOMAIN timer : TimerNotify(t)
    \/ \E token \in Issued, roomID \in RoomIDs : WsConnect(token, roomID)
    \/ \E k \in DOMAIN conn, det \in DetectOutcomes, trn \in TranslateOutcomes : WsReplay(k, det, trn)
    \/ \E k \in DOMAIN conn, outcome \in {"invalid json", "rate limit exceeded", "admitted"} :
          WsRecv(k, outcome)
    \/ \E k \in DOMAIN conn : WsAppend(k)
    \/ \E k \in DOMAIN conn : WsCheck(k)
    \/ \E k \in DOMAIN conn : WsBreak(k)
    \/ \E k \in DOMAIN conn : WsReopen(k)
    \/ \E k \in DOMAIN conn, det \in DetectOutcomes, trn \in TranslateOutcomes : WsDeliver(k, det, trn)
    \/ \E k \in DOMAIN conn : WsDisconnect(k)

SpecEnd == InitEnd /\ [][EndNext]_vars

\* The server with one agent, its handlers concurrent, under the scheduler:
\* a handler or callback that has begun takes its next step, and a timer
\* that is not stopped fires.  When requests arrive, when a connection
\* receives a payload and when it is lost is up to the clients.
InitLive == main(Expiring, LoadConfig)

Scheduling ==
    /\ WF_vars(\E rec \in http : StartChatRead(rec))
    /\ WF_vars(\E rec \in http : StartChatWrite(rec))
    /\ WF_vars(\E rec \in http : JoinCall(rec))
    /\ WF_vars(\E rec \in http : JoinError(rec))
    /\ WF_vars(\E rec \in http : JoinNotify(rec))
    /\ WF_vars(\E rec \in http : EndSetStatus(rec))
    /\ WF_vars(\E rec \in http : EndRemove(rec))
    /\ WF_vars(\E rec \in http : EndClearAgent(rec))
    /\ WF_vars(\E rec \in http : EndSchedule(rec))
    /\ WF_vars(\E rec \in http : EndNotify(rec))
    /\ SF_vars(\E t \in DOMAIN timer : TimerFire(t))
    /\ WF_vars(\E t \in DOMAIN timer : TimerClose(t))
    /\ WF_vars(\E t \in DOMAIN timer : TimerRemove(t))
    /\ WF_vars(\E t \in DOMAIN timer : TimerNotify(t))
    /\ WF_vars(\E k \in DOMAIN conn, det \in DetectOutcomes, trn \in TranslateOutcomes :
                  WsReplay(k, det, trn))
    /\ WF_vars(\E k \in DOMAIN conn : WsAppend(k))
    /\ WF_vars(\E k \in DOMAIN conn : WsCheck(k))
    /\ WF_vars(\E k \in DOMAIN conn : WsBreak(k))
    /\ WF_vars(\E k \in DOMAIN conn : WsReopen(k))
    /\ WF_vars(\E k \in DOMAIN conn, det \in DetectOutcomes, trn \in TranslateOutcomes :
                  WsDeliver(k, det, trn))

SpecLive == InitLive /\ [][EndNext]_vars /\ Scheduling

\* A room with its customer and its agent, as start-chat, set-profile and
\* join-room leave it, a limiter of one message a minute, and the
\* connections of the two with their read loops, one step at a time.
InitLoop ==
    /\ Clients = {"c1", "a1"}
    /\ Rooms = {"r1"}
    /\ client = ("c1" :> NewClient(NameOf("c1"), NoLanguage))
                 @@ ("a1" :> NewClient(NameOf("a1"), <<"e", "n">>))
    /\ room = ("r1" :> [NewRoom("r1", "c1") EXCEPT
                           !.Agent = "a1", !.Status = RoomActive,
                           !.Messages = <<ChatMessage(NameOf("c1"), Text(0), NoText)>>])
    /\ timer = <<>>
    /\ conn = <<>>
    /\ http = {}
    /\ sent = 0
    /\ wins = ("r1" :> [since |-> <<"a1">>, ever |-> {"a1"}])
    /\ left = ("r1" :> TRUE)
    /\ bound = Looping
    /\ translator = NewTranslator(LoadConfig.CacheTTL)
    /\ limiter = NewRateLimiter(1, LoadConfig.RateLimitWindow)
    /\ pending = {}
    /\ now = 0
    /\ log = <<>>

LoopNext ==
    \/ \E token \in Issued, roomID \in RoomIDs : WsConnect(token, roomID)
    \/ \E k \in DOMAIN conn, det \in DetectOutcomes, trn \in TranslateOutcomes : WsReplay(k, det, trn)
    \/ \E k \in DOMAIN conn, decodes \in BOOLEAN : WsRead(k, decodes)
    \/ \E k \in DOMAIN conn : WsAppend(k)
    \/ \E k \in DOMAIN conn : WsCheck(k)
    \/ \E k \in DOMAIN conn, det \in DetectOutcomes, trn \in TranslateOutcomes : WsDeliver(k, det, trn)
    \/ \E k \in DOMAIN conn : WsDisconnect(k)

SpecLoop == InitLoop /\ [][LoopNext]_vars

\* A room with its customer and an agent of any language, as start-chat,
\* set-profile and join-room leave it, and the calls of prepareMessage by
\* the handlers of their connections, which may overlap.
InitPrepare ==
    \E language \in PrepareLanguages :
        /\ Clients = {"c1", "a1"}
        /\ Rooms = {"r1"}
        /\ client = ("c1" :> NewClient(NameOf("c1"), NoLanguage))
                     @@ ("a1" :> NewClient(NameOf("a1"), language))
        /\ room = ("r1" :> [NewRoom("r1", "c1") EXCEPT
                               !.Agent = "a1", !.Status = RoomActive,
                               !.Messages = <<ChatMessage(NameOf("c1"), Text(0), NoText)>>])
        /\ timer = <<>>
        /\ conn = <<>>
        /\ http = {}
        /\ sent = 0
        /\ wins = ("r1" :> [since |-> <<"a1">>, ever |-> {"a1"}])
        /\ left = ("r1" :> TRUE)
        /\ bound = Talking
        /\ translator = NewTranslator(LoadConfig.CacheTTL)
        /\ limiter = NewRateLimiter(LoadConfig.RateLimit, LoadConfig.RateLimitWindow)
        /\ pending = {}
        /\ now = 0
        /\ log = <<>>

PrepareOutcomes == {Reply(text) : text \in PrepareReplies} \cup {Failure}

PrepareNext ==
    \/ \E roomID \in Rooms, content \in PrepareTexts, gen \in TranslateOutcomes :
          \/ PrepareBegin(roomID, room[roomID].Customer, room[roomID].Agent, content, gen)
          \/ PrepareBegin(roomID, room[roomID].Agent, room[roomID].Customer, content, gen)
    \/ \E call \in pending, det \in PrepareOutcomes, gen \in TranslateOutcomes :
          PrepareDetected(call, det, gen)

SpecPrepare == InitPrepare /\ [][PrepareNext]_vars

\* A translator called with languages and texts that may hold a ':', one
\* call at a time; generate answers what it likes.
KeyOutcomes == {Reply(text) : text \in KeyReplies} \cup {Failure}

KeysNext ==
    \E text \in KeyTexts, from \in KeySources, to \in KeyTargets, gen \in KeyOutcomes :
        TranslateCall(text, from, to, gen)

SpecKeys == InitSerial /\ [][KeysNext]_vars

\* A limiter of any maximum and window, asked by any token at any time.
InitLimiter ==
    \E n \in 1..MaxRate, w \in 1..MaxWindow :
        main(Serial, [RateLimit |-> n, RateLimitWindow |-> w, CacheTTL |-> 0])

LimiterNext ==
    \/ Tick
    \/ \E token \in LimiterTokens, later \in {0, 1} : Allow(token, later)

SpecLimiter == InitLimiter /\ [][LimiterNext]_vars

\* A translator of any time to live, called with any text from any language
\* to another, by callers that may overlap.
InitCache ==
    \E ttl \in 0..MaxTTL :
        main(Serial, [RateLimit |-> 1, RateLimitWindow |-> 1, CacheTTL |-> ttl])

CacheNext ==
    \/ Tick
    \/ \E text \in CacheTexts, from \in CacheSources, to \in CacheTargets :
          Translate(text, from, to)
    \/ \E call \in pending, answer \in Generated : TranslateStore(call, answer, FALSE)
    \/ \E call \in pending : TranslateStore(call, <<>>, TRUE)

SpecCache == InitCache /\ [][CacheNext]_vars

\* ------------------------------------------------------------- properties
\* The step is the call of hub.JoinRoom by the join handler rec, and what the
\* handler holds after it is the error err.
JoinReturned(rec, err) ==
    /\ JoinCall(rec)
    /\ [rec EXCEPT !.pc = IF err = Ok THEN "notify" ELSE "error", !.reason = err] \in http'

\* C1: of the JoinRoom calls against one room with no step of an end, an
\* expiry or a reopen of that room in between, at most one assigns an agent;
\* every other one returns "agent is already in room" or "room is not
\* available" and leaves the agent and the status as the winning call set them.
C1 ==
    /\ [](\A r \in DOMAIN wins :
            /\ Len(wins[r].since) <= 1
            /\ wins[r].since # <<>> =>
                 room[r].Agent = wins[r].since[1] /\ room[r].Status = RoomActive)
    /\ [][\A rec \in http :
            JoinCall(rec) /\ rec.room \in DOMAIN wins /\ wins[rec.room].since # <<>> =>
               /\ \E err \in {ErrOccupied, ErrNotAvailable} : JoinReturned(rec, err)
               /\ room'[rec.room].Agent = room[rec.room].Agent
               /\ room'[rec.room].Status = room[rec.room].Status]_vars

\* a second agent's JoinRoom has failed on a room the first agent holds
C1_Witness ==
    \E rec \in http :
        /\ rec.h = "join" /\ rec.pc = "error"
        /\ rec.reason \in {ErrOccupied, ErrNotAvailable}
        /\ rec.room \in DOMAIN wins
        /\ wins[rec.room].since # <<>>
        /\ wins[rec.room].since[1] # rec.who
        /\ room[rec.room].Status = RoomActive

\* what hub.JoinRoom has returned to the direct caller
Returned(roomID, agent, err) ==
    Handler("join", "returned", agent, roomID, Nil, err, <<>>)

\* C2: JoinRoom(roomID, agent) fails with "room not found" if the id is
\* unknown, with "room is not available" if the status is not waiting, with
\* "agent is already in room" if an agent is assigned, with "customer is
\* required" if the room has no customer; a failing call leaves the registry
\* and the room unchanged; a call that succeeds leaves the room active with
\* the given agent.
C2 ==
    [][\A roomID \in HubRoomIDs, agent \in DOMAIN client :
         HubJoinRoom(roomID, agent) =>
            LET known == roomID \in Rooms
                waiting == known /\ room[roomID].Status = RoomWaiting
                free == waiting /\ room[roomID].Agent = Nil
                err == IF ~known THEN ErrNotFound
                       ELSE IF ~waiting THEN ErrNotAvailable
                       ELSE IF ~free THEN ErrOccupied
                       ELSE IF room[roomID].Customer = Nil THEN ErrNoCustomer
                       ELSE Ok
            IN /\ Returned(roomID, agent, err) \in http'
               /\ http' \ http \subseteq {Returned(roomID, agent, err)}
               /\ Rooms' = Rooms
               /\ Clients' = Clients
               /\ IF err = Ok
                  THEN room' = [room EXCEPT ![roomID].Agent = agent,
                                            ![roomID].Status = RoomActive]
                  ELSE room' = room]_vars

\* JoinRoom has returned each of its four errors, and has succeeded
C2_Witness ==
    /\ \A err \in {ErrNotFound, ErrNotAvailable, ErrOccupied, ErrNoCustomer} :
          \E rec \in http : rec.pc = "returned" /\ rec.reason = err
    /\ \E rec \in http :
          /\ rec.pc = "returned" /\ rec.reason = Ok
          /\ rec.room \in Rooms
          /\ room[rec.room].Agent = rec.who
          /\ room[rec.room].Status = RoomActive

\* C3: a room made by CreateRoom is in the registry under an id no room had,
\* waiting, with the given customer and no agent; GetWaitingRooms returns it
\* in every state until its status is first written with something other than
\* waiting; GetWaitingRooms returns only registered rooms that are waiting.
C3 ==
    /\ [](\A r \in DOMAIN room : ~left[r] => r \in GetWaitingRooms)
    /\ [](\A r \in GetWaitingRooms : r \in Rooms /\ room[r].Status = RoomWaiting)
    /\ [][\A r \in DOMAIN room' \ DOMAIN room :
            /\ r \notin Rooms
            /\ r \in Rooms'
            /\ room'[r].Status = RoomWaiting
            /\ room'[r].Agent = Nil
            /\ room'[r].Customer \in DOMAIN client' \ DOMAIN client
            /\ \E rec \in http' \ http : rec.room = r /\ rec.who = room'[r].Customer
            /\ r \in GetWaitingRooms']_vars

\* a room that has its first message and a registered agent to list it for,
\* and that never left waiting, is listed
C3_Witness ==
    \E r \in GetWaitingRooms :
        /\ ~left[r]
        /\ Len(room[r].Messages) = 1
        /\ http = {}
        /\ Clients \cap AgentTokens # {}

\* the status changes of the lifecycle
Lifecycle ==
    { <<RoomWaiting, RoomActive>>, <<RoomActive, RoomClosing>>,
      <<RoomActive, RoomClosed>>, <<RoomClosing, RoomWaiting>>,
      <<RoomClosing, RoomClosed>> }

\* C4: the status of a room changes only along waiting->active,
\* active->closing, active->closed, closing->waiting and closing->closed.
C4 ==
    [][\A r \in DOMAIN room :
         room'[r].Status # room[r].Status =>
            <<room[r].Status, room'[r].Status>> \in Lifecycle]_vars

\* C5: in every state a waiting room has no agent, an active room has an
\* agent, and a closing room has no agent.
C5 ==
    \A r \in DOMAIN room :
        /\ room[r].Status = RoomWaiting => room[r].Agent = Nil
        /\ room[r].Status = RoomActive => room[r].Agent # Nil
        /\ room[r].Status = RoomClosing => room[r].Agent = Nil

\* the timers of a room
TimersOf(r) == {t \in DOMAIN timer : timer[t].room = r}

\* C6: the reopen by a customer's message and the firing of the deadline
\* exclude each other: a reopen finds no timer of its room that has fired, so
\* no room is waiting or active while a callback has removed it or is about to.
C6 ==
    [][\A k \in DOMAIN conn :
         WsReopen(k) =>
            \A t \in TimersOf(conn[k].room) :
               room[conn[k].room].CloseTimer = t => timer[t].st = "pending"]_vars

\* the room is waiting again, and the callback of the timer the reopen was to
\* stop has closed the registry's entry for it
C6_Both ==
    \E r \in DOMAIN room :
        /\ room[r].Status = RoomWaiting
        /\ r \notin Rooms
        /\ \E t \in TimersOf(r) : timer[t].st = "done"
        /\ \A rec \in http : rec.h # "end"

\* C7: after any sequence of end, reopen and join requests, the callback of a
\* close timer never sets closed, and never removes, a room that is waiting or
\* active.
C7 ==
    [][\A t \in DOMAIN timer :
         TimerClose(t) \/ TimerRemove(t) =>
            room[timer[t].room].Status \notin {RoomWaiting, RoomActive}]_vars

\* the room was ended once, by an agent that had joined it, and the one timer
\* that end made is in state st
EndedOnce(r, st) ==
    /\ r \in Rooms
    /\ Cardinality(TimersOf(r)) = 1
    /\ \A t \in TimersOf(r) : timer[t].st = st /\ timer[t].by \in wins[r].ever

\* C8: requests served one at a time.  When the customer's message reaches a
\* room that its agent's end has left closing with its one timer pending, the room is
\* waiting, it has no agent, it holds no timer and no timer of it is pending;
\* the next JoinRoom on that room succeeds and leaves it active with the
\* joining agent.
C8 ==
    /\ [][\A k \in DOMAIN conn :
            WsReopen(k) /\ EndedOnce(conn[k].room, "pending") =>
               /\ room'[conn[k].room].Status = RoomWaiting
               /\ room'[conn[k].room].Agent = Nil
               /\ room'[conn[k].room].CloseTimer = NoTimer
               /\ conn[k].room \in Rooms'
               /\ \A t \in TimersOf(conn[k].room) : timer'[t].st = "stopped"]_vars
    /\ [][\A rec \in http :
            /\ JoinCall(rec)
            /\ EndedOnce(rec.room, "stopped")
            /\ room[rec.room].Status = RoomWaiting
            => /\ JoinReturned(rec, Ok)
               /\ room'[rec.room].Status = RoomActive
               /\ room'[rec.room].Agent = rec.who]_vars

\* the customer's connection saw an agent join, the agent leave and, after
\* the customer's message reopened the room, the other agent join; the room
\* is active with that agent and its one timer was stopped
C8_Witness ==
    \E r \in Rooms, k \in DOMAIN conn :
        /\ EndedOnce(r, "stopped")
        /\ room[r].Status = RoomActive
        /\ wins[r].since = <<room[r].Agent>>
        /\ wins[r].ever = AgentTokens
        /\ \A t \in TimersOf(r) : timer[t].by # room[r].Agent
        /\ conn[k].client = room[r].Customer
        /\ conn[k].out = <<RoomJoinedResponse, ChatEndedResponse("agent_left"), RoomJoinedResponse>>

\* the chat_ended notices with reason closed written to connection k
ClosedNotices(k) ==
    Len(SelectSeq(conn[k].out, LAMBDA n : n = ChatEndedResponse("closed")))

\* C9: no payload has come from any connection.  Once the callback of a
\* timer has returned, its room is closed and out of the registry, and the
\* customer's connection, if it has one, has got exactly one chat_ended
\* notice with reason closed.
C9 ==
    sent = 0 =>
       \A t \in DOMAIN timer :
          timer[t].st = "done" =>
             LET r == timer[t].room IN
               /\ room[r].Status = RoomClosed
               /\ r \notin Rooms
               /\ \A k \in DOMAIN conn :
                     conn[k].client = room[r].Customer => ClosedNotices(k) = 1

\* IsPrefix(s, t): the sequence t begins with the sequence s
IsPrefix(s, t) ==
    Len(s) <= Len(t) /\ \A i \in 1..Len(s) : s[i] = t[i]

\* C10: a message recorded in the history of a room stays in it, in its
\* place; and each turn of the history loop writes the oldest message not yet
\* replayed to the connection of the agent that connected.
C10 ==
    /\ [][\A r \in DOMAIN room : IsPrefix(room[r].Messages, room'[r].Messages)]_vars
    /\ [][\A k \in DOMAIN conn, det \in DetectOutcomes, trn \in TranslateOutcomes :
            WsReplay(k, det, trn) =>
               /\ Len(conn'[k].out) = Len(conn[k].out) + 1
               /\ conn'[k].out[Len(conn'[k].out)].Content = Head(conn[k].snap).Content
               /\ conn'[k].snap = Tail(conn[k].snap)]_vars

\* the participant that is now in the other slot of the room of connection k
Counterpart(k) ==
    IF conn[k].client = room[conn[k].room].Customer
    THEN room[conn[k].room].Agent
    ELSE room[conn[k].room].Customer

\* C11: when the handler of a connection comes to deliver an admitted text
\* in a room that is not closed, and the participant now in the other slot
\* of the room has a connection, the text is delivered to that connection.
C11 ==
    [][\A k \in DOMAIN conn, det \in DetectOutcomes, trn \in TranslateOutcomes :
         WsDeliver(k, det, trn) /\ room[conn[k].room].Status # RoomClosed =>
            LET p == Counterpart(k) IN
              p # Nil /\ client[p].Connection \in DOMAIN conn =>
                 conn'[client[p].Connection].live =
                    Append(conn[client[p].Connection].live, conn[k].content)]_vars

\* C12: of two texts a connection admitted, the later one is never delivered
\* to a connection of the counterpart before the earlier one, and never
\* stands before it in the history of the room.
C12 ==
    \A k \in DOMAIN conn :
        \A i \in 1..Len(conn[k].seen), j \in 1..Len(conn[k].seen) :
            i < j =>
              LET m1 == conn[k].seen[i]
                  m2 == conn[k].seen[j]
                  h == room[conn[k].room].Messages
              IN /\ \A c \in DOMAIN conn :
                       \A p \in 1..Len(conn[c].live), q \in 1..Len(conn[c].live) :
                           conn[c].live[p] = m1 /\ conn[c].live[q] = m2 => p < q
                 /\ \A p \in 1..Len(h), q \in 1..Len(h) :
                       h[p].Content = m1 /\ h[q].Content = m2 => p < q

\* the customer's connection admitted two texts; both were delivered to the
\* agent's connection and both are in the history
C12_Witness ==
    \E k \in DOMAIN conn, c \in DOMAIN conn :
        /\ conn[k].pc = "read"
        /\ Len(conn[k].seen) = 2
        /\ conn[k].client = room[conn[k].room].Customer
        /\ conn[c].client = room[conn[k].room].Agent
        /\ conn[c].live = conn[k].seen
        /\ Len(room[conn[k].room].Messages) = 3
        /\ \A i \in {1, 2} : room[conn[k].room].Messages[i + 1].Content = conn[k].seen[i]

\* the token names a registered participant, the room id a registered room,
\* and the token is that of the room's customer or of its agent
MayConnect(token, roomID) ==
    /\ token \in Clients
    /\ roomID \in Rooms
    /\ token # Nil
    /\ token \in {room[roomID].Customer, room[roomID].Agent}

\* C13: a connection is accepted only for a registered token and a
\* registered room of which the token is the customer's or the agent's; an
\* attempt is refused only when that fails, and the refusing handler changes
\* no client (its connection handle included), no room (its history and
\* fields included), no connection and no registry.
C13 ==
    /\ [][\A k \in DOMAIN conn' \ DOMAIN conn :
            MayConnect(conn'[k].client, conn'[k].room)]_vars
    /\ [][\A rec \in http' \ http :
            rec.h = "ws" =>
               /\ ~MayConnect(rec.who, rec.room)
               /\ UNCHANGED <<client, room, conn, Clients, Rooms, timer>>]_vars
    /\ [][\A rec \in http :
            WsError(rec) => UNCHANGED <<client, room, conn, Clients, Rooms, timer>>]_vars

\* a registered agent that is not in the room is being refused, while the
\* customer and the agent of the room are connected
C13_Witness ==
    \E rec \in http, k \in DOMAIN conn, c \in DOMAIN conn :
        /\ rec.h = "ws" /\ rec.reason = "you are not in this room"
        /\ rec.who \in Clients /\ rec.room \in Rooms
        /\ conn[k].room = rec.room /\ conn[k].client = room[rec.room].Customer
        /\ conn[c].room = rec.room /\ conn[c].client = room[rec.room].Agent
        /\ client[conn[k].client].Connection = k
        /\ client[conn[c].client].Connection = c

\* C14: no two rooms of the registry are active with the same agent.
C14 ==
    \A r \in Rooms, q \in Rooms :
        r # q /\ room[r].Status = RoomActive /\ room[q].Status = RoomActive
           => room[r].Agent = Nil \/ room[r].Agent # room[q].Agent

\* C18: a payload the limiter refuses is answered with an error notice on
\* the connection it came from; that connection goes on reading; nothing is
\* written to any other connection, and no room, timer or registry entry
\* changes (history, status, agent and deadline included).
C18 ==
    [][\A k \in DOMAIN conn :
         WsRecv(k, "rate limit exceeded") =>
            /\ k \in DOMAIN conn'
            /\ conn'[k] = [conn[k] EXCEPT !.out = Append(@, ErrorResponse("rate limit exceeded"))]
            /\ conn'[k].pc = "read"
            /\ \A c \in DOMAIN conn \ {k} : c \in DOMAIN conn' /\ conn'[c] = conn[c]
            /\ room' = room
            /\ timer' = timer
            /\ Rooms' = Rooms
            /\ client' = client]_vars

\* the customer's payload was refused while the agent was connected: the
\* customer's connection has the notice and reads on, the agent's has got
\* nothing, and the history holds the first message only
C18_Witness ==
    \E k \in DOMAIN conn, c \in DOMAIN conn :
        /\ conn[k].client = room[conn[k].room].Customer
        /\ conn[c].client = room[conn[k].room].Agent
        /\ conn[k].recipient = conn[c].client
        /\ room[conn[k].room].Status = RoomActive
        /\ conn[k].pc = "read" /\ conn[c].pc = "read"
        /\ conn[k].out = <<RoomJoinedResponse, ErrorResponse("rate limit exceeded")>>
        /\ conn[c].live = <<>>
        /\ sent = 1
        /\ Len(room[conn[k].room].Messages) = 1

\* C19: while a handler handles an admitted payload that arrived when its
\* room was closed, the room stays closed; the handler's test of the status
\* writes the error notice to the sender's connection and leaves the loop;
\* the handler neither reopens the room nor delivers the payload.
C19 ==
    [][\A k \in DOMAIN conn :
         conn[k].at = RoomClosed =>
            /\ room'[conn[k].room].Status = RoomClosed
            /\ WsCheck(k) =>
                  /\ conn'[k].pc = "break"
                  /\ conn'[k].out = Append(conn[k].out, ErrorResponse("room is closed"))
            /\ ~WsReopen(k)
            /\ \A det \in DetectOutcomes, trn \in TranslateOutcomes : ~WsDeliver(k, det, trn)]_vars

\* the open connections of participant p
ConnectionsOf(p) == {k \in DOMAIN conn : conn[k].client = p}

\* the step writes notice n to an open connection of p
Notified(p, n) ==
    \E k \in ConnectionsOf(p) :
        k \in DOMAIN conn' /\ conn'[k].out = Append(conn[k].out, n)

\* the step writes nothing to the connections of p
Spared(p) ==
    \A k \in ConnectionsOf(p) : k \in DOMAIN conn' /\ conn'[k].out = conn[k].out

\* C20: the handler of a join that succeeded writes room_joined to a
\* connection of the room's customer, if it has one open; the handler of a
\* customer's end writes chat_ended, reason customer_left, to one of the
\* agent; the handler of another caller's end writes chat_ended, reason
\* agent_left, to one of the customer; the callback of the close timer writes
\* chat_ended, reason closed, to one of the customer; and none of them writes
\* to a connection of the caller.
C20 ==
    [][/\ \A rec \in http :
             JoinNotify(rec) =>
                LET p == room[rec.room].Customer IN
                  /\ p # Nil /\ ConnectionsOf(p) # {} => Notified(p, RoomJoinedResponse)
                  /\ Spared(rec.who)
       /\ \A rec \in http :
             EndNotify(rec) /\ rec.reason = "customer_left" =>
                LET p == room[rec.room].Agent IN
                  /\ p # Nil /\ ConnectionsOf(p) # {} =>
                        Notified(p, ChatEndedResponse("customer_left"))
                  /\ Spared(rec.who)
       /\ \A rec \in http :
             EndNotify(rec) /\ rec.reason = "agent_left" =>
                LET p == room[rec.room].Customer IN
                  /\ p # Nil /\ ConnectionsOf(p) # {} =>
                        Notified(p, ChatEndedResponse("agent_left"))
                  /\ Spared(rec.who)
       /\ \A t \in DOMAIN timer :
             TimerNotify(t) =>
                LET p == room[timer[t].room].Customer IN
                  p # Nil /\ ConnectionsOf(p) # {} =>
                     Notified(p, ChatEndedResponse("closed"))]_vars

\* the calls of Allow for token a, in order
CallsOf(a) == SelectSeq(log, LAMBDA c : c.token = a)

\* the calls before the i-th of cs that stored a timestamp
StoredBefore(cs, i) == {j \in 1..(i - 1) : cs[j].ok}

\* C15: for a limiter of maximum N and window W and an identity new to it,
\* the first N calls, made within one window, all return true; the next call,
\* made while the N timestamps are within the window, returns false; a call
\* made when every recorded timestamp is older than W returns true.
C15 ==
    \A a \in LimiterTokens :
        LET cs == CallsOf(a)
            N == limiter.maxMessages
            W == limiter.window
        IN \A i \in 1..Len(cs) :
              LET stored == StoredBefore(cs, i) IN
                /\ i <= N /\ cs[i].at - cs[1].at < W => cs[i].ok
                /\ i = N + 1 /\ (\A j \in 1..N : cs[j].ok /\ cs[i].at - cs[j].stamp < W)
                      => ~cs[i].ok
                /\ (\A j \in stored : cs[i].at - cs[j].stamp > W) => cs[i].ok

\* an identity was admitted N times, then refused, then admitted again after
\* the window
C15_Witness ==
    \E a \in LimiterTokens :
        LET cs == CallsOf(a)
            N == limiter.maxMessages
        IN /\ Len(cs) = N + 2
           /\ \A j \in 1..N : cs[j].ok
           /\ ~cs[N + 1].ok
           /\ cs[N + 2].ok
           /\ \A j \in 1..N : cs[N + 2].at - cs[j].stamp > limiter.window

\* C16: a call of Allow for b leaves the timestamps stored for any other
\* identity a as they were; the result of a call for a is decided by the
\* timestamps the earlier calls for a stored and by the clock, and the
\* timestamps stored for a after it are those of them (with its own) that the
\* window still holds.
C16 ==
    /\ [][\A a \in LimiterTokens, b \in LimiterTokens, later \in {0, 1} :
            Allow(b, later) /\ a # b => Stamps(a)' = Stamps(a)]_vars
    /\ [](\A a \in LimiterTokens :
            LET cs == CallsOf(a) IN
              /\ \A i \in 1..Len(cs) :
                    cs[i].ok <=>
                       Cardinality({j \in StoredBefore(cs, i) :
                                       cs[j].stamp > cs[i].at - limiter.window})
                         < limiter.maxMessages
              /\ cs # <<>> =>
                   LET last == cs[Len(cs)]
                       oks == SelectSeq(cs, LAMBDA c : c.ok)
                   IN Stamps(a) = SelectSeq([j \in 1..Len(oks) |-> oks[j].stamp],
                                            LAMBDA t : t > last.at - limiter.window))

\* one identity is at its maximum and was refused, and a call for the other
\* identity has since been admitted
C16_Witness ==
    \E a \in LimiterTokens, b \in LimiterTokens :
        /\ a # b
        /\ Len(log) >= 2
        /\ log[Len(log)].token = b /\ log[Len(log)].ok
        /\ \E i \in 1..(Len(log) - 1) : log[i].token = a /\ ~log[i].ok
        /\ Len(Stamps(a)) = limiter.maxMessages

\* the stores of a translation under key among the first n returns
Stores(key, n) ==
    {j \in 1..n : log[j].key = key /\ log[j].generated /\ ~log[j].err}

Latest(S) == CHOOSE j \in S : \A i \in S : i <= j

\* C17: a call of Translate for a triple that finds a translation stored for
\* it, of an age that does not exceed the time to live, returns the stored
\* text and does not call generate; one that finds it older calls generate;
\* and the entry of a key is the text and the time of the latest call that
\* stored one for it.
C17 ==
    /\ \A i \in 1..Len(log) :
          LET e == log[i]
              prior == Stores(e.key, e.seen)
          IN prior # {} =>
                LET s == log[Latest(prior)]
                    age == e.asked - s.at
                IN /\ age <= translator.cacheTTL => ~e.generated /\ e.text = s.text
                   /\ age > translator.cacheTTL => e.generated
    /\ \A key \in DOMAIN translator.cache :
          LET all == Stores(key, Len(log)) IN
            /\ all # {}
            /\ translator.cache[key] =
                 [text |-> log[Latest(all)].text, createdAt |-> log[Latest(all)].at]

\* a translation was stored, returned from the cache while young, and
\* replaced by another text once it was too old
C17_Witness ==
    /\ Len(log) = 3
    /\ log[1].generated /\ ~log[1].err
    /\ log[2].key = log[1].key /\ ~log[2].generated /\ log[2].text = log[1].text
    /\ log[2].asked > log[1].at
    /\ log[3].key = log[1].key /\ log[3].generated /\ ~log[3].err
    /\ log[3].text # log[1].text
    /\ translator.cache[log[1].key] = [text |-> log[3].text, createdAt |-> log[3].at]
\* the deadlines of room r that are pending
PendingOf(r) == {t \in TimersOf(r) : timer[t].st = "pending"}

\* the end-chat handler rec has done its writes, and the room it looked up
\* was active with the caller as its agent
AgentEnded(rec) ==
    /\ rec.h = "end" /\ rec.pc = "notify"
    /\ rec.at = RoomActive
    /\ rec.agent = rec.who

\* C21: requests served one at a time.  When the agent of an active room has
\* ended the chat, the room is closing, it has no agent, exactly one deadline
\* of the room is pending, and the room is in the registry.
C21 ==
    \A rec \in http :
        AgentEnded(rec) =>
           /\ room[rec.room].Status = RoomClosing
           /\ room[rec.room].Agent = Nil
           /\ Cardinality(PendingOf(rec.room)) = 1
           /\ rec.room \in Rooms

\* the end-chat handler rec has done its writes, and the room it looked up
\* was active with the caller as its customer
CustomerEnded(rec) ==
    /\ rec.h = "end" /\ rec.pc = "notify"
    /\ rec.at = RoomActive
    /\ rec.reason = "customer_left"

\* C22: requests served one at a time.  When the customer of an active room
\* has ended the chat, the room is closed and out of the registry, and no
\* deadline of the room is pending or in its callback (so that nothing is
\* left to send the customer a chat_ended notice for the room).
C22 ==
    \A rec \in http :
        CustomerEnded(rec) =>
           /\ room[rec.room].Status = RoomClosed
           /\ ~GetRoom(rec.room)
           /\ \A t \in TimersOf(rec.room) : timer[t].st \in {"stopped", "done"}

\* C23: in every state, for every room of the registry, the token of its
\* customer, if it has one, and the token of its agent, if it has one, are
\* keys of the map of clients.
C23 ==
    \A r \in Rooms :
        /\ room[r].Customer # Nil => GetClient(room[r].Customer)
        /\ room[r].Agent # Nil => GetClient(room[r].Agent)

\* C24: a call of IsAgentInRoom returns true if and only if some room of
\* the registry has the token as its agent and is active; it returns false
\* for a token no client has, and for an agent each of whose rooms is
\* closing, waiting or closed.
C24 ==
    [][\A token \in HubTokens \cup FakeTokens :
         HubIsAgentInRoom(token) =>
            LET mine == {r \in Rooms : room[r].Agent = token}
                answer == log'[Len(log')]
            IN /\ Len(log') = Len(log) + 1
               /\ answer.token = token
               /\ answer.ok <=> \E r \in mine : room[r].Status = RoomActive
               /\ token \notin DOMAIN client => ~answer.ok
               /\ (\A r \in mine : room[r].Status \in {RoomClosing, RoomWaiting, RoomClosed})
                     => ~answer.ok]_vars

\* the agent was said to be in a room while its room was active, and not to
\* be in one now that the room, still holding the agent, is closing
C24_Witness ==
    /\ Len(log) = 2
    /\ log[1].ok /\ ~log[2].ok
    /\ log[1].token = log[2].token
    /\ \E r \in Rooms : room[r].Agent = log[2].token /\ room[r].Status = RoomClosing

\* how many records of the history of room r hold the text
Recorded(r, text) ==
    Len(SelectSeq(room[r].Messages, LAMBDA m : m.Content = text))

\* C25: with the handlers of the two sides and the creation of the room
\* overlapping, no step removes, overwrites or reorders a record of the
\* history, and every text a connection admitted is in the history of its
\* room exactly once, from the handler's append on.
C25 ==
    /\ [][\A r \in DOMAIN room : IsPrefix(room[r].Messages, room'[r].Messages)]_vars
    /\ [](\A k \in DOMAIN conn :
            \A i \in 1..Len(conn[k].seen) :
               \/ i = Len(conn[k].seen) /\ conn[k].pc = "append"
               \/ Recorded(conn[k].room, conn[k].seen[i]) = 1)

\* the participant whose name a record of the history bears
SenderOf(rec) == CHOOSE p \in DOMAIN client : client[p].Name = rec.From

\* C26: each turn of the history loop writes to the connecting agent's
\* connection what prepareMessage returns for the record's own sender and
\* the connecting agent: its From is the name of the participant that sent
\* it, and it is translated from that participant's language.
C26 ==
    [][\A k \in DOMAIN conn, det \in DetectOutcomes, trn \in TranslateOutcomes :
         WsReplay(k, det, trn) =>
            LET rec == Head(conn[k].snap) IN
              conn'[k].out[Len(conn'[k].out)] =
                 prepareMessage(conn[k].room, SenderOf(rec), conn[k].client,
                                rec.Content, det, trn)]_vars

\* the last notice written to connection c in the next state
Written(c) == conn'[c].out[Len(conn'[c].out)]

\* the live delivery of handler k happens, and the translation for it
\* succeeds: the languages of sender and recipient are known and differ and
\* Translate returns no error
TranslatedLive(k, trn) ==
    LET recipient == conn[k].recipient IN
      /\ recipient # Nil
      /\ client[recipient].Connection \in DOMAIN conn
      /\ client'[conn[k].client].Language # NoLanguage
      /\ client[recipient].Language # NoLanguage
      /\ client'[conn[k].client].Language # client[recipient].Language
      /\ ~trn.err

\* C27: when the translation for a live message succeeds, a recipient that
\* is the room's customer gets a record whose content is the translation and
\* whose translated field is empty, and any other recipient a record whose
\* content is the text as it was sent and whose translated field is the
\* translation; the record the handler appends to the history holds the
\* text as it was sent and no translation, and the delivery leaves the
\* history as it is.
C27 ==
    /\ [][\A k \in DOMAIN conn, det \in DetectOutcomes, trn \in TranslateOutcomes :
            WsDeliver(k, det, trn) /\ TranslatedLive(k, trn) =>
               LET recipient == conn[k].recipient
                   c == client[recipient].Connection
               IN /\ Len(conn'[c].out) = Len(conn[c].out) + 1
                  /\ Written(c).Type = "message"
                  /\ Written(c).From = client[conn[k].client].Name
                  /\ IF recipient = room[conn[k].room].Customer
                     THEN /\ Written(c).Content = TrimSpace(trn.text)
                          /\ Written(c).TranslatedContent = NoText
                     ELSE /\ Written(c).Content = conn[k].content
                          /\ Written(c).TranslatedContent = TrimSpace(trn.text)
                  /\ room' = room]_vars
    /\ [][\A k \in DOMAIN conn :
            WsAppend(k) =>
               LET h == room'[conn[k].room].Messages IN
                 /\ h # <<>>
                 /\ h[Len(h)].Content = conn[k].content
                 /\ h[Len(h)].TranslatedContent = NoText
                 /\ conn[k].content = conn[k].seen[Len(conn[k].seen)]]_vars

\* customer and agent each sent a text to the other's connection: the
\* customer's connection got the translation as content, the agent's got the
\* customer's text with the translation beside it, and the history holds the
\* three texts as they were sent
C27_Witness ==
    \E k \in DOMAIN conn, c \in DOMAIN conn, reply \in TranslateReplies :
        /\ conn[k].client = room[conn[k].room].Customer
        /\ conn[c].client = room[conn[k].room].Agent
        /\ Len(conn[k].live) = 1 /\ Len(conn[c].live) = 1
        /\ \E i \in 1..Len(conn[k].out) :
              /\ conn[k].out[i].Type = "message"
              /\ conn[k].out[i].From = client[conn[c].client].Name
              /\ conn[k].out[i].Content = TrimSpace(reply)
              /\ conn[k].out[i].TranslatedContent = NoText
        /\ \E i \in 1..Len(conn[c].out) :
              /\ conn[c].out[i].Type = "message"
              /\ conn[c].out[i].Content = conn[c].live[1]
              /\ conn[c].out[i].TranslatedContent = TrimSpace(reply)
        /\ Len(room[conn[k].room].Messages) = 3
        /\ \A i \in 1..3 : room[conn[k].room].Messages[i].TranslatedContent = NoText
        /\ {room[conn[k].room].Messages[i].Content : i \in 2..3} =
              {conn[k].live[1], conn[c].live[1]}

\* prepareMessage for sender and recipient asks for the language of the
\* text and DetectLanguage returns an error
DetectionFails(roomID, sender, det) == Detects(roomID, sender) /\ det.err

\* prepareMessage for sender and recipient asks for a translation and
\* Translate returns an error
TranslationFails(roomID, sender, recipient, det, trn) ==
    /\ ~DetectionFails(roomID, sender, det)
    /\ LanguageAfter(roomID, sender, det) # NoLanguage
    /\ client[recipient].Language # NoLanguage
    /\ LanguageAfter(roomID, sender, det) # client[recipient].Language
    /\ trn.err

\* C28: when the detection of the language or the translation fails for a
\* live message whose recipient is connected, the recipient's connection
\* gets the record with the text as it was sent and an empty translated
\* field, the sender's handler goes on to read, and a failed detection
\* leaves the sender's language as it was; a failure in the history loop
\* writes the record in the same way and the loop goes on.
C28 ==
    /\ [][\A k \in DOMAIN conn, det \in DetectOutcomes, trn \in TranslateOutcomes :
            LET sender == conn[k].client
                recipient == conn[k].recipient
            IN /\ WsDeliver(k, det, trn)
               /\ recipient # Nil
               /\ client[recipient].Connection \in DOMAIN conn
               /\ \/ DetectionFails(conn[k].room, sender, det)
                  \/ TranslationFails(conn[k].room, sender, recipient, det, trn)
               => LET c == client[recipient].Connection IN
                    /\ Len(conn'[c].out) = Len(conn[c].out) + 1
                    /\ Written(c) = ChatMessage(client[sender].Name, conn[k].content, NoText)
                    /\ conn[k].content = conn[k].seen[Len(conn[k].seen)]
                    /\ k \in DOMAIN conn' /\ conn'[k].pc = "read"
                    /\ DetectionFails(conn[k].room, sender, det) =>
                          client'[sender].Language = client[sender].Language]_vars
    /\ [][\A k \in DOMAIN conn, det \in DetectOutcomes, trn \in TranslateOutcomes :
            LET sender == room[conn[k].room].Customer
            IN /\ WsReplay(k, det, trn)
               /\ \/ DetectionFails(conn[k].room, sender, det)
                  \/ TranslationFails(conn[k].room, sender, conn[k].client, det, trn)
               => /\ Len(conn'[k].out) = Len(conn[k].out) + 1
                  /\ Written(k).Content = Head(conn[k].snap).Content
                  /\ Written(k).TranslatedContent = NoText
                  /\ conn'[k].pc \in {"replay", "read"}
                  /\ DetectionFails(conn[k].room, sender, det) =>
                        client'[sender].Language = client[sender].Language]_vars

\* the customer's text was delivered live to the agent's connection as it
\* was sent, with no translation, although the two languages are known and
\* differ, and the customer's handler reads on
C28_Witness ==
    \E k \in DOMAIN conn, c \in DOMAIN conn :
        /\ conn[k].client = room[conn[k].room].Customer
        /\ conn[c].client = room[conn[k].room].Agent
        /\ conn[k].pc = "read"
        /\ Len(conn[k].seen) = 1
        /\ conn[c].live = conn[k].seen
        /\ Len(conn[c].out) = 2
        /\ conn[c].out[2] = ChatMessage(client[conn[k].client].Name, conn[k].seen[1], NoText)
        /\ client[conn[k].client].Language # NoLanguage
        /\ client[conn[c].client].Language # NoLanguage
        /\ client[conn[k].client].Language # client[conn[c].client].Language

\* ------------------------------------------------------------- C29
\* the record prepareMessage returns when it translates nothing
Original(e) == ChatMessage(client[e.sender].Name, e.content, NoText)

\* a call of prepareMessage returns in this step
Returns == Len(log') = Len(log) + 1

C30 ==
    [][/\ \A call \in pending' \ pending :
              /\ call.sender = room[call.room].Customer
              /\ client[call.sender].Language = NoLanguage
       /\ \A p \in Clients :
              client'[p].Language # client[p].Language =>
                  /\ \E r \in Rooms : p = room[r].Customer
                  /\ client[p].Language = NoLanguage
                  /\ \E text \in PrepareReplies : client'[p].Language = TrimSpace(text)]_vars

\* ------------------------------------------------------------- C31
\* a conn.Read returns in this step with a payload that does not decode
Undecoded == Len(log') = Len(log) + 1 /\ ~log'[Len(log')].decodes

\* C31: a payload that does not decode changes nothing: the limiter keeps
\* its timestamps, no room gets a message or another status, agent or
\* timer, nothing is written to any connection, and the connection that
\* read it is open and waits for the next payload.
C31 ==
    [][Undecoded =>
         LET k == log'[Len(log')].conn IN
           /\ limiter' = limiter
           /\ room' = room
           /\ timer' = timer
           /\ client' = client
           /\ DOMAIN conn' = DOMAIN conn
           /\ \A x \in DOMAIN conn : conn'[x].out = conn[x].out
           /\ conn'[k].pc = "read"]_vars

\* a client whose message was admitted sends a payload that does not decode:
\* the limiter still holds the one timestamp and the connection is open
C31_Witness ==
    /\ Len(log) >= 2
    /\ LET e == log[Len(log)]
           d == log[Len(log) - 1]
       IN /\ ~e.decodes
          /\ d.allowed /\ d.token = e.token
          /\ Len(Stamps(e.token)) = 1
          /\ e.conn \in DOMAIN conn /\ conn[e.conn].pc = "read"
          /\ Len(room[conn[e.conn].room].Messages) = 2

\* ------------------------------------------------------------- C32
\* the connections whose loop ends in this step
Lost == DOMAIN conn \ DOMAIN conn'

\* C32: when a connection is lost its loop ends and its client's handle is
\* detached if it names that connection; a handle that names another,
\* later attached connection of the same client, still live, stays set to
\* it.
C32 ==
    [][\A k \in Lost :
         LET p == conn[k].client IN
           IF client[p].Connection = k
           THEN client'[p].Connection = NoConn
           ELSE client'[p].Connection = client[p].Connection]_vars

\* ------------------------------------------------------------- C33
\* the timestamps of the token that are not older than the cutoff
NotOlder(token, cutoff) == SelectSeq(Stamps(token), LAMBDA t : t >= cutoff)

\* the calls of cs that returned true with a timestamp between from and to
AdmittedIn(cs, from, to) ==
    {j \in 1..Len(cs) : cs[j].ok /\ from <= cs[j].stamp /\ cs[j].stamp <= to}

\* C33: Allow keeps exactly the timestamps of the identity that are not
\* older than now minus the window; if they are maxMessages or more it
\* returns false and records nothing, otherwise it records now and returns
\* true.  So an identity never has more than maxMessages timestamps, and in
\* any interval of one window's length at most maxMessages of its calls
\* return true.
C33 ==
    /\ [][Len(log') = Len(log) + 1 =>
            LET e == log'[Len(log')]
                kept == NotOlder(e.token, e.at - limiter.window)
            IN IF Len(kept) >= limiter.maxMessages
               THEN ~e.ok /\ limiter'.limits[e.token] = kept
               ELSE e.ok /\ limiter'.limits[e.token] = Append(kept, e.stamp)]_vars
    /\ [](\A a \in LimiterTokens :
            LET cs == CallsOf(a) IN
              /\ Len(Stamps(a)) <= limiter.maxMessages
              /\ \A t \in 0..MaxClock :
                    Cardinality(AdmittedIn(cs, t, t + limiter.window))
                      <= limiter.maxMessages)

\* ------------------------------------------------------------- C34
\* the handler of connection k has done the reopen test for a message that
\* arrived while its room was closing
PastReopen(k) == conn[k].pc = "deliver" /\ conn[k].at = RoomClosing

\* C34: requests served one at a time.  After the reopen test for a message
\* admitted while the room was closing: if the sender is the room's
\* customer the room is waiting and none of its deadlines is pending;
\* otherwise the room is still closing and the deadline it holds is still
\* pending.
C34 ==
    \A k \in DOMAIN conn :
        PastReopen(k) =>
           LET r == conn[k].room IN
             IF room[r].Customer = conn[k].client
             THEN /\ room[r].Status = RoomWaiting
                  /\ PendingOf(r) = {}
             ELSE /\ room[r].Status = RoomClosing
                  /\ room[r].CloseTimer \in PendingOf(r)

\* ------------------------------------------------------------- C35
\* the handler of connection k delivers a live message to connection c in
\* this step
Delivers(k, c) ==
    /\ conn[k].pc = "deliver" /\ conn'[k].pc = "read"
    /\ Len(conn'[c].live) = Len(conn[c].live) + 1

\* C35: when a live message is delivered, its sender is the customer or the
\* agent the room has at that moment, and the client of the connection it
\* is written to is the one in the room's other slot.
C35 ==
    [][\A k \in DOMAIN conn, c \in DOMAIN conn :
         Delivers(k, c) =>
            LET r == conn[k].room
                sender == conn[k].client
                recipient == conn[c].client
            IN \/ sender = room[r].Customer /\ recipient = room[r].Agent
               \/ sender = room[r].Agent /\ recipient = room[r].Customer]_vars

\* ------------------------------------------------------------- C36
\* the end-chat handler rec was called by a client that was neither the
\* customer nor the agent of the room when the handler looked it up
Stranger(rec) ==
    /\ rec.h = "end"
    /\ rec.who # room[rec.room].Customer
    /\ rec.who # rec.agent

\* C36: no step of an end-chat handler whose caller is neither the room's
\* customer nor its agent changes the room's status or agent, makes or
\* stops a timer, or writes a notice to a connection.
C36 ==
    [][\A rec \in http :
         Stranger(rec) /\ rec \notin http' =>
            /\ room'[rec.room].Status = room[rec.room].Status
            /\ room'[rec.room].Agent = room[rec.room].Agent
            /\ room'[rec.room].CloseTimer = room[rec.room].CloseTimer
            /\ timer' = timer
            /\ \A c \in DOMAIN conn : conn'[c].out = conn[c].out]_vars

\* ------------------------------------------------------------- C37
\* C37: requests served one at a time.  Whenever no handler or callback is
\* in flight, every room has at most one pending deadline, and it has one
\* exactly when its status is closing.
C37 ==
    InFlight = 0 =>
       \A r \in DOMAIN room :
          /\ Cardinality(PendingOf(r)) <= 1
          /\ PendingOf(r) # {} <=> room[r].Status = RoomClosing

\* ------------------------------------------------------------- C38
\* C38: under the scheduler, a room that is closing is later waiting or
\* closed.
C38 ==
    \A r \in RoomIDs :
        (r \in DOMAIN room /\ room[r].Status = RoomClosing)
           ~> (r \in DOMAIN room /\ room[r].Status \in {RoomWaiting, RoomClosed})

\* a room was closing twice: the customer's message reopened it, and after
\* the next end its deadline elapsed and closed it
C38_Witness ==
    \E r \in DOMAIN room :
        /\ room[r].Status = RoomClosed
        /\ \E t \in TimersOf(r) : timer[t].st = "stopped"
        /\ \E t \in TimersOf(r) : timer[t].st = "done"

\* ------------------------------------------------------------- C39
\* the earlier calls of the log that were given the triple of the i-th and
\* stored what generate answered
StoredFor(i) ==
    {j \in 1..(i - 1) :
        /\ log[j].text = log[i].text /\ log[j].from = log[i].from /\ log[j].to = log[i].to
        /\ "generate" \in log[j].calls /\ ~log[j].trn.err}

\* C39: a call of Translate that is answered from the cache returns a text
\* that an earlier call stored for the same source language, target
\* language and text.
C39 ==
    \A i \in 1..Len(log) :
        "generate" \notin log[i].calls =>
            \E j \in StoredFor(i) : log[j].trn.text = log[i].trn.text
====
